---- MODULE Spec2Model ----
(***************************************************************************)
(* TigerFans: ticket reservation and fulfilment pipeline.                  *)
(*                                                                         *)
(* Three state machines share this module:                                 *)
(*   SpecPg     the relational accounting backend                          *)
(*              (tigerfans/model/accounting/_postgres.py) running          *)
(*              concurrent transactions behind the DB gate; SpecPgSerial   *)
(*              is the same machine with DB_GATE_LIMIT = 1;                *)
(*   SpecStore  the payment-session stores                                 *)
(*              (tigerfans/model/paymentsession/_redis.py, _postgres.py);  *)
(*   SpecWeb    checkout and webhook handlers (tigerfans/server.py) over   *)
(*              the TigerBeetle accounting backend and its batcher         *)
(*              (tigerfans/model/accounting/_tigerbeetle.py).              *)
(* Each specification leaves the variables of the others unchanged.        *)
(***************************************************************************)
EXTENDS Integers, Sequences, FiniteSets, TLC

VARIABLES
    \* ---- relational ledger (SpecPg)
    holds,      \* table holds: sequence of rows, the row id is the index
    txn,        \* per caller slot: the accounting call in progress
    now,        \* wall clock, time.time()
    gate_limit, \* max(1, DB_GATE_LIMIT)
    db_gate,    \* free permits of the asyncio.Semaphore
    calls,      \* accounting calls made so far
    \* ---- payment-session store (SpecStore)
    backend,    \* PAYSESSION_BACKEND: "redis" or "pg"
    gates,      \* keys fulfill:{psid} / rows of fulfillment_gates
    idemp,      \* keys idemp:{evt} / rows of idempotency_keys
    uncommitted,\* pg: rows inserted by a transaction that has not committed
    sessions,   \* hashes ps:{psid} / rows of payment_sessions_hot
    pendings,   \* sorted set "pendings" / rows of payment_sessions_pending
    sc,         \* per caller slot: the store call in progress
    fam,        \* history: results fulfill_and_mark_event has returned, per psid
    store_ops,  \* store calls made so far
    \* ---- checkout and webhook over the TigerBeetle ledger (SpecWeb)
    db_kind,    \* DB_KIND: "redis" or "sql" (sqlite / postgres)
    xfers,      \* ledger: transfer id -> resource and state
    batcher,    \* TransferBatcher: _pending_transfers, _pending_completions
    req,        \* per request slot: the handler in progress and its locals
    orders,     \* order store: psid -> order hash / orders row
    fkeys,      \* keys fulfill:{order}:{psid} / rows of fulfillment_keys
    evseen,     \* keys idemp:{key} / rows of webhook_events_seen
    hist,       \* history: what webhook executions have done so far
    nreq,       \* requests received so far
    \* ---- the two transfer batchers on their own (SpecBatch)
    bkind,      \* the class in use: "TransferBatcher" or "ChainedTransferBatcher"
    bq,         \* _pending_transfers: the submitter of each queued transfer
    bcomp,      \* _pending_completions: (start_index, num, fut)
    bref,       \* _flush_task / _next_batch_task: a task or None
    btask,      \* per task: where it is
    rpcs,       \* create_transfers calls sent and not yet answered
    futs,       \* per submit call: its future, and history of its transfers
    bflush,     \* flush_now: not called, or holding the lock
    \* ---- the gate on its own (SpecGate)
    sect,       \* per caller: where it is in "async with gated()", last exit
    \* ---- the inventory read on its own (SpecInv)
    inv         \* the implementation in use, its ledger accounts, the call

pgVars == <<holds, txn, now, gate_limit, db_gate, calls>>
storeVars == <<backend, gates, idemp, uncommitted, sessions, pendings, sc, fam,
               store_ops>>

webVars == <<db_kind, xfers, batcher, req, orders, fkeys, evseen, hist, nreq>>

batchVars == <<bkind, bq, bcomp, bref, btask, rpcs, futs, bflush>>

gateVars == <<sect>>

invVars == <<inv>>

vars == <<holds, txn, now, gate_limit, db_gate, calls,
          backend, gates, idemp, uncommitted, sessions, pendings, sc, fam,
          store_ops,
          db_kind, xfers, batcher, req, orders, fkeys, evseen, hist, nreq,
          bkind, bq, bcomp, bref, btask, rpcs, futs, bflush, sect, inv>>

(***************************************************************************)
(* Bounds of the model.                                                    *)
(***************************************************************************)
CapA == 1          \* rows of resources: capacity of class_a (scaled down)
CapB == 1          \* capacity of class_b
CapG == 1          \* capacity of goodie
MaxTxn == 2        \* concurrent callers of the relational ledger
MaxCalls == 3      \* accounting calls made in one behaviour
MaxTime == 2       \* clock ticks
Ttl == 1           \* timeout_seconds of a hold, in clock ticks

MaxSlots == 2      \* HTTP requests in progress at once
MaxReqs == 4       \* HTTP requests received in one behaviour
NOrders == 2       \* checkouts that reach the order store
MaxBatch == 4      \* TransferBatcher.max_batch_size
MaxCallers == 2    \* concurrent callers of the payment-session store
MaxStoreOps == 4   \* store calls made in one behaviour
NPsid == 2         \* payment session ids
NEvt == 2          \* provider event ids

NULL == -1         \* SQL NULL / Python None for ids and timestamps

(***************************************************************************)
(* Relational ledger: tigerfans/model/accounting/_postgres.py              *)
(***************************************************************************)
RES_CLASS_A == "class_a"
RES_CLASS_B == "class_b"
RES_GOODIE == "goodie"
Resources == {RES_CLASS_A, RES_CLASS_B, RES_GOODIE}

H_PENDING == "pending"
H_POSTED == "posted"
H_VOIDED == "voided"

\* rows seeded by ensure_schema_and_fixtures
capacity(r) ==
    CASE r = RES_CLASS_A -> CapA
      [] r = RES_CLASS_B -> CapB
      [] OTHER -> CapG

res_name(ticket_class) == IF ticket_class = "A" THEN RES_CLASS_A ELSE RES_CLASS_B

Txns == 1..MaxTxn

IdleTxn ==
    [op |-> "idle", pc |-> "idle", res |-> RES_CLASS_A, now_ts |-> 0,
     sold |-> 0, th |-> NULL, gh |-> NULL, gets_ticket |-> FALSE,
     gets_goodie |-> FALSE, follows |-> "-"]

\* READ COMMITTED: a statement of transaction t sees the committed rows, and
\* t's own uncommitted inserts and updates.
Visible(t, h) == h.owner \in {0, t}
RowStatus(t, h) == IF h.lock = t /\ t # 0 THEN h.nstatus ELSE h.status
RowExp(t, h) == IF h.lock = t /\ t # 0 THEN h.nexp ELSE h.expires_at

RECURSIVE SumQty(_, _, _, _, _)
\* COALESCE(SUM(qty),0) over the rows i..Len(holds) of resource r that
\* transaction t sees with status st and, when live is asked, not expired
SumQty(t, r, st, nowts, i) ==
    IF i > Len(holds) THEN 0
    ELSE LET h == holds[i]
             hit == /\ Visible(t, h)
                    /\ h.resource = r
                    /\ RowStatus(t, h) = st
                    /\ (st = H_PENDING =>
                          (RowExp(t, h) = NULL \/ RowExp(t, h) > nowts))
         IN (IF hit THEN h.qty ELSE 0) + SumQty(t, r, st, nowts, i + 1)

Sold(t, r) == SumQty(t, r, H_POSTED, 0, 1)
\* a variant that counts every pending row, expired or not
HeldForever(t, r, nowts) == SumQty(t, r, H_PENDING, NULL, 1)
Held(t, r, nowts) == SumQty(t, r, H_PENDING, nowts, 1)

\* a variant that keeps one unit back
_available_units_short(t, r, sold, nowts) == capacity(r) - sold - Held(t, r, nowts) - 1

\* _available_units: capacity - sold - held
_available_units(t, r, sold, nowts) == capacity(r) - sold - Held(t, r, nowts)

NewRow(t, r, q, st, e) ==
    [resource |-> r, qty |-> q, status |-> st, expires_at |-> e,
     owner |-> t, lock |-> 0, nstatus |-> st, nexp |-> e]

\* the gate: sql.py _gated
GateAcquire == db_gate > 0 /\ db_gate' = db_gate - 1
GateRelease == db_gate' = db_gate + 1

\* a new call takes the lowest free caller slot, while calls remain
Free(t) == txn[t].pc \in {"idle", "done"}
Start(t) ==
    /\ Free(t)
    /\ \A u \in 1..(t - 1) : ~Free(u)
    /\ calls < MaxCalls
    /\ calls' = calls + 1

TicketIds == {i \in 1..Len(holds) : holds[i].owner = 0 /\ holds[i].resource # RES_GOODIE}
GoodieIds == {i \in 1..Len(holds) : holds[i].owner = 0 /\ holds[i].resource = RES_GOODIE}

\* _insert_hold_if_capacity, second half: the pending-sum SELECT, the
\* comparison and the INSERT ... RETURNING id.  Result: <<new holds, id>>.
_insert_hold_if_capacity(t, r, q, sold, nowts, st, e) ==
    IF _available_units(t, r, sold, nowts) < q
    THEN <<holds, NULL>>
    ELSE <<Append(holds, NewRow(t, r, q, st, e)), Len(holds) + 1>>

\* timeout_seconds > 0: expires_at = now_ts + timeout_seconds
ExpiresAt(nowts) == nowts + Ttl

\* ---- hold_tickets -------------------------------------------------------
\* gate, session.begin(), then the capacity and posted-sum SELECTs for the
\* ticket resource
hold_tickets(t, cls) ==
    /\ Start(t)
    /\ GateAcquire
    /\ txn' = [txn EXCEPT ![t] = [IdleTxn EXCEPT !.op = "hold", !.pc = "t_held",
                 !.res = res_name(cls), !.now_ts = now,
                 !.sold = Sold(t, res_name(cls))]]
    /\ UNCHANGED <<holds, now, gate_limit>> /\ UNCHANGED storeVars /\ UNCHANGED webVars /\ UNCHANGED batchVars /\ UNCHANGED gateVars /\ UNCHANGED invVars

HoldTicketInsert(t) ==
    /\ txn[t].op = "hold" /\ txn[t].pc = "t_held"
    /\ LET r == _insert_hold_if_capacity(t, txn[t].res, 1, txn[t].sold,
                    txn[t].now_ts, H_PENDING, ExpiresAt(txn[t].now_ts))
       IN /\ holds' = r[1]
          /\ txn' = [txn EXCEPT ![t].th = r[2], ![t].sold = 0, ![t].pc = "g_sold"]
    /\ UNCHANGED <<now, gate_limit, calls, db_gate>> /\ UNCHANGED storeVars /\ UNCHANGED webVars /\ UNCHANGED batchVars /\ UNCHANGED gateVars /\ UNCHANGED invVars

HoldGoodieSold(t) ==
    /\ txn[t].op = "hold" /\ txn[t].pc = "g_sold"
    /\ txn' = [txn EXCEPT ![t].now_ts = now, ![t].sold = Sold(t, RES_GOODIE),
                          ![t].pc = "g_held"]
    /\ UNCHANGED <<holds, now, gate_limit, calls, db_gate>> /\ UNCHANGED storeVars /\ UNCHANGED webVars /\ UNCHANGED batchVars /\ UNCHANGED gateVars /\ UNCHANGED invVars

HoldGoodieInsert(t) ==
    /\ txn[t].op = "hold" /\ txn[t].pc = "g_held"
    /\ LET r == _insert_hold_if_capacity(t, RES_GOODIE, 1, txn[t].sold,
                    txn[t].now_ts, H_PENDING, ExpiresAt(txn[t].now_ts))
       IN /\ holds' = r[1]
          /\ txn' = [txn EXCEPT ![t].gh = r[2], ![t].sold = 0, ![t].pc = "commit"]
    /\ UNCHANGED <<now, gate_limit, calls, db_gate>> /\ UNCHANGED storeVars /\ UNCHANGED webVars /\ UNCHANGED batchVars /\ UNCHANGED gateVars /\ UNCHANGED invVars

\* ---- book_immediately ---------------------------------------------------
book_immediately(t, cls) ==
    /\ Start(t)
    /\ GateAcquire
    /\ txn' = [txn EXCEPT ![t] = [IdleTxn EXCEPT !.op = "book", !.pc = "t_held",
                 !.res = res_name(cls), !.now_ts = now,
                 !.sold = Sold(t, res_name(cls))]]
    /\ UNCHANGED <<holds, now, gate_limit>> /\ UNCHANGED storeVars /\ UNCHANGED webVars /\ UNCHANGED batchVars /\ UNCHANGED gateVars /\ UNCHANGED invVars

BookTicketInsert(t) ==
    /\ txn[t].op = "book" /\ txn[t].pc = "t_held"
    /\ LET r == _insert_hold_if_capacity(t, txn[t].res, 1, txn[t].sold,
                    txn[t].now_ts, H_POSTED, NULL)
       IN /\ holds' = r[1]
          /\ txn' = [txn EXCEPT ![t].th = r[2], ![t].sold = 0, ![t].pc = "g_sold"]
    /\ UNCHANGED <<now, gate_limit, calls, db_gate>> /\ UNCHANGED storeVars /\ UNCHANGED webVars /\ UNCHANGED batchVars /\ UNCHANGED gateVars /\ UNCHANGED invVars

BookGoodieSold(t) ==
    /\ txn[t].op = "book" /\ txn[t].pc = "g_sold"
    /\ txn' = [txn EXCEPT ![t].sold = Sold(t, RES_GOODIE), ![t].pc = "g_held"]
    /\ UNCHANGED <<holds, now, gate_limit, calls, db_gate>> /\ UNCHANGED storeVars /\ UNCHANGED webVars /\ UNCHANGED batchVars /\ UNCHANGED gateVars /\ UNCHANGED invVars

BookGoodieInsert(t) ==
    /\ txn[t].op = "book" /\ txn[t].pc = "g_held"
    /\ LET r == _insert_hold_if_capacity(t, RES_GOODIE, 1, txn[t].sold,
                    txn[t].now_ts, H_POSTED, NULL)
       IN /\ holds' = r[1]
          /\ txn' = [txn EXCEPT ![t].gh = r[2], ![t].sold = 0, ![t].pc = "commit"]
    /\ UNCHANGED <<now, gate_limit, calls, db_gate>> /\ UNCHANGED storeVars /\ UNCHANGED webVars /\ UNCHANGED batchVars /\ UNCHANGED gateVars /\ UNCHANGED invVars

\* ---- conditional UPDATEs ------------------------------------------------
\* a variant without the status test: WHERE id=:id AND (expires_at IS NULL OR
\* expires_at > :now)
MatchesAnyStatus(t, i, nowts) ==
    /\ i \in 1..Len(holds)
    /\ Visible(t, holds[i])
    /\ (RowExp(t, holds[i]) = NULL \/ RowExp(t, holds[i]) > nowts)

\* WHERE id=:id AND status='pending' AND (expires_at IS NULL OR expires_at > :now)
Matches(t, i, nowts) ==
    /\ i \in 1..Len(holds)
    /\ Visible(t, holds[i])
    /\ RowStatus(t, holds[i]) = H_PENDING
    /\ (RowExp(t, holds[i]) = NULL \/ RowExp(t, holds[i]) > nowts)

\* a row another transaction has updated and not yet committed blocks the UPDATE
Blocked(t, i) == i \in 1..Len(holds) /\ holds[i].lock \notin {0, t}

UpdateRows(t, ids, nowts, st, clearExp) ==
    [i \in 1..Len(holds) |->
        IF i \in ids /\ Matches(t, i, nowts)
        THEN [holds[i] EXCEPT !.lock = t, !.nstatus = st,
                !.nexp = IF clearExp THEN NULL ELSE RowExp(t, holds[i])]
        ELSE holds[i]]

\* ---- commit_order -------------------------------------------------------
\* what the call that returned last to this caller did to hold id: "post" when
\* it was a commit_order of id that returned gets_ticket = True, "void" when it
\* was a cancel_order of id (kept for the properties, not read by the code)
Follows(t, id) ==
    IF txn[t].pc = "done" /\ txn[t].th = id /\ txn[t].op = "commit" /\ txn[t].gets_ticket
    THEN "post"
    ELSE IF txn[t].pc = "done" /\ txn[t].th = id /\ txn[t].op = "cancel"
    THEN "void"
    ELSE "-"

\* id normalisation and now_ts = time.time(), both before the gate
commit_order(t, ticket_hold_id, goodie_hold_id, try_goodie) ==
    /\ Start(t)
    /\ txn' = [txn EXCEPT ![t] = [IdleTxn EXCEPT !.op = "commit", !.pc = "gate",
                 !.now_ts = now, !.th = ticket_hold_id,
                 !.follows = Follows(t, ticket_hold_id),
                 !.gh = IF try_goodie THEN goodie_hold_id ELSE NULL]]
    /\ UNCHANGED <<holds, now, gate_limit, db_gate>> /\ UNCHANGED storeVars /\ UNCHANGED webVars /\ UNCHANGED batchVars /\ UNCHANGED gateVars /\ UNCHANGED invVars

CommitPostTicket(t) ==
    /\ txn[t].op = "commit" /\ txn[t].pc = "gate"
    /\ GateAcquire
    /\ ~Blocked(t, txn[t].th)
    /\ holds' = UpdateRows(t, {txn[t].th}, txn[t].now_ts, H_POSTED, TRUE)
    /\ txn' = [txn EXCEPT ![t].pc = "post_g",
                 ![t].gets_ticket = Matches(t, txn[t].th, txn[t].now_ts)]
    /\ UNCHANGED <<now, gate_limit, calls>> /\ UNCHANGED storeVars /\ UNCHANGED webVars /\ UNCHANGED batchVars /\ UNCHANGED gateVars /\ UNCHANGED invVars

CommitPostGoodie(t) ==
    /\ txn[t].op = "commit" /\ txn[t].pc = "post_g"
    /\ ~Blocked(t, txn[t].gh)
    /\ holds' = UpdateRows(t, {txn[t].gh}, txn[t].now_ts, H_POSTED, TRUE)
    /\ txn' = [txn EXCEPT ![t].pc = "commit",
                 ![t].gets_goodie = Matches(t, txn[t].gh, txn[t].now_ts)]
    /\ UNCHANGED <<now, gate_limit, calls, db_gate>> /\ UNCHANGED storeVars /\ UNCHANGED webVars /\ UNCHANGED batchVars /\ UNCHANGED gateVars /\ UNCHANGED invVars

\* ---- cancel_order / cancel_only_goodie ------------------------------------
cancel_order(t, ticket_hold_id, goodie_hold_id) ==
    /\ Start(t)
    /\ txn' = [txn EXCEPT ![t] = [IdleTxn EXCEPT !.op = "cancel",
                 !.pc = IF ticket_hold_id = NULL /\ goodie_hold_id = NULL
                        THEN "done" ELSE "gate",
                 !.now_ts = IF ticket_hold_id = NULL /\ goodie_hold_id = NULL
                            THEN 0 ELSE now,
                 !.th = ticket_hold_id, !.gh = goodie_hold_id]]
    /\ UNCHANGED <<holds, now, gate_limit, db_gate>> /\ UNCHANGED storeVars /\ UNCHANGED webVars /\ UNCHANGED batchVars /\ UNCHANGED gateVars /\ UNCHANGED invVars

cancel_only_goodie(t, goodie_hold_id) ==
    /\ Start(t)
    /\ txn' = [txn EXCEPT ![t] = [IdleTxn EXCEPT !.op = "cancel",
                 !.pc = IF goodie_hold_id = NULL THEN "done" ELSE "gate",
                 !.now_ts = IF goodie_hold_id = NULL THEN 0 ELSE now,
                 !.gh = goodie_hold_id]]
    /\ UNCHANGED <<holds, now, gate_limit, db_gate>> /\ UNCHANGED storeVars /\ UNCHANGED webVars /\ UNCHANGED batchVars /\ UNCHANGED gateVars /\ UNCHANGED invVars

CancelUpdate(t) ==
    /\ txn[t].op = "cancel" /\ txn[t].pc = "gate"
    /\ GateAcquire
    /\ ~Blocked(t, txn[t].th) /\ ~Blocked(t, txn[t].gh)
    /\ holds' = UpdateRows(t, {txn[t].th, txn[t].gh}, txn[t].now_ts, H_VOIDED, FALSE)
    /\ txn' = [txn EXCEPT ![t].pc = "commit"]
    /\ UNCHANGED <<now, gate_limit, calls>> /\ UNCHANGED storeVars /\ UNCHANGED webVars /\ UNCHANGED batchVars /\ UNCHANGED gateVars /\ UNCHANGED invVars

\* ---- end of "async with db.session.begin()" and of "async with db.gated()"
TxnCommit(t) ==
    /\ txn[t].pc = "commit"
    /\ holds' = [i \in 1..Len(holds) |->
                   IF holds[i].owner = t THEN [holds[i] EXCEPT !.owner = 0]
                   ELSE IF holds[i].lock = t
                   THEN [holds[i] EXCEPT !.lock = 0, !.status = holds[i].nstatus,
                                         !.expires_at = holds[i].nexp]
                   ELSE holds[i]]
    /\ GateRelease
    /\ txn' = [txn EXCEPT ![t].pc = "done", ![t].now_ts = 0, ![t].res = RES_CLASS_A]
    /\ UNCHANGED <<now, gate_limit, calls>> /\ UNCHANGED storeVars /\ UNCHANGED webVars /\ UNCHANGED batchVars /\ UNCHANGED gateVars /\ UNCHANGED invVars

Tick ==
    /\ now < MaxTime
    /\ now' = now + 1
    /\ UNCHANGED <<holds, txn, gate_limit, calls, db_gate>> /\ UNCHANGED storeVars /\ UNCHANGED webVars /\ UNCHANGED batchVars /\ UNCHANGED gateVars /\ UNCHANGED invVars

(***************************************************************************)
(* Payment-session store: tigerfans/model/paymentsession/_redis.py and     *)
(* _postgres.py                                                            *)
(***************************************************************************)
Psids == 1..NPsid
Events == 1..NEvt
Callers == 1..MaxCallers

IdleCall ==
    [op |-> "idle", pc |-> "idle", psid |-> NULL, evt |-> NULL,
     already_fulfilled |-> FALSE, event_seen |-> NULL,
     pre_gate |-> FALSE, pre_evt |-> NULL,
     ret |-> NULL, listed |-> FALSE, total |-> NULL, items |-> {},
     created_at |-> NULL, psids |-> <<>>, missing |-> <<>>]

\* the store as constructed, before any call
InitStoreIdle ==
    /\ backend = "redis"
    /\ gates = {}
    /\ idemp = {}
    /\ uncommitted = {}
    /\ sessions = [p \in Psids |-> NULL]
    /\ pendings = [p \in Psids |-> NULL]
    /\ sc = [c \in Callers |-> IdleCall]
    /\ fam = [p \in Psids |-> [won |-> 0, lost |-> 0]]
    /\ store_ops = 0

(***************************************************************************)
(* Checkout and webhook (tigerfans/server.py) over the TigerBeetle         *)
(* accounting backend (tigerfans/model/accounting/_tigerbeetle.py)         *)
(***************************************************************************)
Slots == 1..MaxSlots
OrderIds == 1..NOrders
Kinds == {"succeeded", "failed", "canceled"}

\* event_kind(event): the last part of the event type, whatever it is;
\* "refunded" stands for a type the handler has no branch for
EventKinds == Kinds \cup {"refunded"}

NoResp == [code |-> 0, idempotent |-> FALSE, order_status |-> "-"]

IdleReq ==
    [op |-> "idle", pc |-> "idle", cls |-> "-", psid |-> NULL, kind |-> "-",
     tb_transfer_id |-> NULL, goodie_tb_transfer_id |-> NULL, try_goodie |-> FALSE,
     book_transfer_id |-> NULL, book_goodie_id |-> NULL,
     errors |-> {}, gets_ticket |-> FALSE, gets_goodie |-> FALSE, status |-> "-",
     waiting |-> FALSE, ledger_called |-> FALSE, gate_held |-> FALSE, did_effect |-> FALSE,
     replay |-> FALSE, input |-> "-", rejected |-> {}, ledger_ok |-> FALSE,
     resp |-> NoResp]

NoOrder ==
    [status |-> "-", cls |-> "-", tb_transfer_id |-> NULL,
     goodie_tb_transfer_id |-> NULL, try_goodie |-> FALSE,
     ticket_code |-> FALSE, got_goodie |-> FALSE]

NoOutcome == [status |-> "-", ticket_code |-> FALSE, got_goodie |-> FALSE]

\* the server as started: accounts funded, nothing sold, no order
InitWebIdle ==
    /\ db_kind = "redis"
    /\ xfers = <<>>
    /\ batcher = [_pending_transfers |-> <<>>, _pending_completions |-> <<>>]
    /\ req = [r \in Slots |-> IdleReq]
    /\ orders = [o \in OrderIds |-> NoOrder]
    /\ fkeys = {}
    /\ evseen = {}
    /\ hist = [effects |-> [o \in OrderIds |-> [k \in EventKinds |-> 0]],
               paid_writes |-> [o \in OrderIds |-> 0],
               first_outcome |-> [o \in OrderIds |-> NoOutcome],
               completed |-> {}, overlapped |-> {}]
    /\ nreq = 0

\* ---- the batchers on their own: submit calls of any size
NSubmit == 4
MaxSub == 2

\* a submit call, and the task it may create, carry the same number
Submitters == 1..NSubmit

\* the task flush_now creates, and all tasks
FlushTask == 0
Tasks == Submitters \cup {FlushTask}
SubSizes == 1..MaxSub

\* a submit call not made yet.  num, sent and answered are history: how many
\* transfers were handed in, how many of them have left in an RPC, and how
\* many of them are in an RPC that has returned; got is len() of the result
NoFut == [state |-> "none", num |-> 0, sent |-> 0, answered |-> 0, got |-> 0,
          error |-> FALSE]

\* a batcher as constructed: nothing queued, no task
InitBatchIdle ==
    /\ bkind = "TransferBatcher"
    /\ bq = <<>>
    /\ bcomp = <<>>
    /\ bref = NULL
    /\ btask = [t \in Tasks |-> "none"]
    /\ rpcs = {}
    /\ futs = [c \in Submitters |-> NoFut]
    /\ bflush = "none"

\* ---- the gate on its own: callers entering and leaving gated sections
NGate == 3
GateCallers == 1..NGate

\* no caller is in a gated section; none has left one yet
InitGateIdle == sect = [c \in GateCallers |-> [pc |-> "out", left |-> "-"]]

\* ---- the inventory read on its own
\* no snapshot taken
NoSnap == [by_class |-> <<>>, timestamp |-> NULL]
Taken_at(snap) == snap.timestamp

\* no inventory read is being made
InitInvIdle ==
    inv = [impl |-> "pg", accounts |-> <<>>, pc |-> "idle", now_ts |-> 0,
           snap |-> NoSnap]

\* DB_GATE_LIMIT as configured; make_async_engine takes max(1, gate_limit)
GateLimits == 0..MaxTxn

InitPg ==
    /\ holds = <<>>
    /\ txn = [t \in Txns |-> IdleTxn]
    /\ now = 0
    /\ gate_limit \in {IF g < 1 THEN 1 ELSE g : g \in GateLimits}
    /\ db_gate = gate_limit
    /\ calls = 0
    /\ InitStoreIdle
    /\ InitWebIdle
    /\ InitBatchIdle
    /\ InitGateIdle
    /\ InitInvIdle

NextPg ==
    \/ \E t \in Txns, cls \in {"A", "B"} : hold_tickets(t, cls)
    \/ \E t \in Txns : HoldTicketInsert(t)
    \/ \E t \in Txns : HoldGoodieSold(t)
    \/ \E t \in Txns : HoldGoodieInsert(t)
    \/ \E t \in Txns, cls \in {"A", "B"} : book_immediately(t, cls)
    \/ \E t \in Txns : BookTicketInsert(t)
    \/ \E t \in Txns : BookGoodieSold(t)
    \/ \E t \in Txns : BookGoodieInsert(t)
    \/ \E t \in Txns, th \in TicketIds, gh \in GoodieIds \cup {NULL}, tg \in BOOLEAN :
          commit_order(t, th, gh, tg)
    \/ \E t \in Txns : CommitPostTicket(t)
    \/ \E t \in Txns : CommitPostGoodie(t)
    \/ \E t \in Txns, th \in TicketIds \cup {NULL}, gh \in GoodieIds \cup {NULL} :
          cancel_order(t, th, gh)
    \/ \E t \in Txns, gh \in GoodieIds \cup {NULL} : cancel_only_goodie(t, gh)
    \/ \E t \in Txns : CancelUpdate(t)
    \/ \E t \in Txns : TxnCommit(t)
    \/ Tick

SpecPg == InitPg /\ [][NextPg]_vars

\* DB_GATE_LIMIT = 1: the semaphore admits one ledger transaction at a time,
\* so the transactions run one after the other
InitPgSerial == InitPg /\ gate_limit = 1
SpecPgSerial == InitPgSerial /\ [][NextPg]_vars

\* committed contents of the ledger, as any reader outside a transaction sees them
posted(r) == SumQty(0, r, H_POSTED, 0, 1)
live_pending(r) == SumQty(0, r, H_PENDING, now, 1)

(***************************************************************************)
(* C1: in the relational ledger, under any interleaving of hold_tickets,   *)
(* book_immediately, commit_order and cancel_order transactions admitted   *)
(* by the gate, every resource R keeps                                     *)
(*     posted(R) + live_pending(R) <= capacity(R).                         *)
(***************************************************************************)
C1_NoOversell == \A r \in Resources : posted(r) + live_pending(r) <= capacity(r)

(***************************************************************************)
(* Payment-session store operations.  The key-value backend issues one     *)
(* command (or one MULTI/EXEC pipeline) per await; the relational backend  *)
(* runs each operation as one gated transaction on its own connection.     *)
(***************************************************************************)
None == "None"
PyBool(b) == IF b THEN "True" ELSE "False"

\* redis SET key "1" NX: the reply is truthy iff the key did not exist
SetNxAlways(keys, k) == TRUE
SetNx(keys, k) == k \notin keys

\* INSERT ... ON CONFLICT DO NOTHING RETURNING: a row comes back iff inserted
InsertReturning(rows, k) == k \notin rows

\* an insert of a key another open transaction has inserted waits for it
RowBlocked(c, tbl, k) ==
    \E u \in uncommitted : u.tbl = tbl /\ u.key = k /\ u.by # c

CallFree(c) == sc[c].pc \in {"idle", "done"}

CallStart(c) ==
    /\ CallFree(c)
    /\ \A d \in 1..(c - 1) : ~CallFree(d)
    /\ store_ops < MaxStoreOps
    /\ store_ops' = store_ops + 1

FamReturn(psid, already) ==
    fam' = [fam EXCEPT ![psid] =
              IF already THEN [@ EXCEPT !.lost = @ + 1]
                         ELSE [@ EXCEPT !.won = @ + 1]]

\* "not idemp_ok" (redis) / "idem_row is None" (pg)
EventSeenSame(idemp_ok) == PyBool(idemp_ok)
EventSeen(idemp_ok) == PyBool(~idemp_ok)

\* a gate that is not kept
WithoutGate(keys, psid) == keys

\* SET fulfill:{psid} / INSERT INTO fulfillment_gates: the key is there
\* afterwards, whatever the reply, and nothing of the call takes it back
WithGate(keys, psid) == keys \cup {psid}

\* fulfill_and_mark_event, up to and including fulfill_gate's SET NX (redis)
\* or the acquisition of the gate and the start of the transaction (pg)
fulfill_and_mark_event(c, psid, evt_id) ==
    /\ CallStart(c)
    /\ IF backend = "redis"
       THEN LET fulfill_ok == SetNx(gates, psid) IN
            /\ gates' = WithGate(gates, psid)
            /\ sc' = [sc EXCEPT ![c] =
                  [IdleCall EXCEPT
                     !.op = "fam", !.psid = psid, !.evt = evt_id,
                     !.pc = IF fulfill_ok /\ evt_id # NULL THEN "mark" ELSE "done",
                     !.already_fulfilled = ~fulfill_ok, !.event_seen = None,
                     !.pre_gate = psid \in gates]]
            /\ IF fulfill_ok /\ evt_id # NULL
               THEN UNCHANGED fam
               ELSE FamReturn(psid, ~fulfill_ok)
            /\ UNCHANGED db_gate
       ELSE /\ GateAcquire
            /\ sc' = [sc EXCEPT ![c] =
                  [IdleCall EXCEPT !.op = "fam", !.psid = psid, !.evt = evt_id,
                                   !.pc = "ins_gate"]]
            /\ UNCHANGED <<gates, fam>>
    /\ UNCHANGED <<holds, txn, now, gate_limit, calls>>
    /\ UNCHANGED <<backend, idemp, uncommitted, sessions, pendings>> /\ UNCHANGED webVars /\ UNCHANGED batchVars /\ UNCHANGED gateVars /\ UNCHANGED invVars

\* redis: mark_event_seen's SET NX, and the return
MarkEventSeen(c) ==
    /\ sc[c].pc = "mark"
    /\ LET idemp_ok == SetNx(idemp, sc[c].evt) IN
       /\ idemp' = idemp \cup {sc[c].evt}
       /\ sc' = [sc EXCEPT ![c].pc = "done",
                           ![c].event_seen = EventSeen(idemp_ok),
                           ![c].pre_evt = IF sc[c].evt \in idemp THEN 1 ELSE 0]
    /\ FamReturn(sc[c].psid, FALSE)
    /\ UNCHANGED pgVars
    /\ UNCHANGED <<backend, gates, uncommitted, sessions, pendings, store_ops>> /\ UNCHANGED webVars /\ UNCHANGED batchVars /\ UNCHANGED gateVars /\ UNCHANGED invVars

\* pg: INSERT INTO fulfillment_gates; "gate is None" returns from inside the
\* transaction, which commits it and releases the gate
PgInsertGate(c) ==
    /\ sc[c].pc = "ins_gate"
    /\ ~RowBlocked(c, "gate", sc[c].psid)
    /\ LET psid == sc[c].psid
           gate == InsertReturning(gates, psid) IN
       IF ~gate
       THEN /\ sc' = [sc EXCEPT ![c].pc = "done",
                                ![c].already_fulfilled = TRUE,
                                ![c].event_seen = None,
                                ![c].pre_gate = TRUE]
            /\ FamReturn(psid, TRUE)
            /\ GateRelease
            /\ UNCHANGED <<gates, uncommitted>>
       ELSE /\ gates' = WithGate(gates, psid)
            /\ uncommitted' = uncommitted \cup
                                {[tbl |-> "gate", key |-> psid, by |-> c]}
            /\ sc' = [sc EXCEPT ![c].pc =
                                  IF sc[c].evt # NULL THEN "ins_idem" ELSE "commit",
                                ![c].already_fulfilled = FALSE,
                                ![c].event_seen = None,
                                ![c].pre_gate = FALSE]
            /\ UNCHANGED <<fam, db_gate>>
    /\ UNCHANGED <<holds, txn, now, gate_limit, calls>>
    /\ UNCHANGED <<backend, idemp, sessions, pendings, store_ops>> /\ UNCHANGED webVars /\ UNCHANGED batchVars /\ UNCHANGED gateVars /\ UNCHANGED invVars

\* pg: INSERT INTO idempotency_keys
PgInsertIdem(c) ==
    /\ sc[c].pc = "ins_idem"
    /\ ~RowBlocked(c, "idem", sc[c].evt)
    /\ LET idem_row == InsertReturning(idemp, sc[c].evt) IN
       /\ idemp' = idemp \cup {sc[c].evt}
       /\ uncommitted' = IF idem_row
                         THEN uncommitted \cup
                                {[tbl |-> "idem", key |-> sc[c].evt, by |-> c]}
                         ELSE uncommitted
       /\ sc' = [sc EXCEPT ![c].pc = "commit",
                           ![c].event_seen = EventSeen(idem_row),
                           ![c].pre_evt = IF sc[c].evt \in idemp THEN 1 ELSE 0]
    /\ UNCHANGED pgVars
    /\ UNCHANGED <<backend, gates, sessions, pendings, fam, store_ops>> /\ UNCHANGED webVars /\ UNCHANGED batchVars /\ UNCHANGED gateVars /\ UNCHANGED invVars

\* pg: leaving "async with self.db.begin()" and "async with self.gated()"
PgCommit(c) ==
    /\ sc[c].pc = "commit"
    /\ uncommitted' = {u \in uncommitted : u.by # c}
    /\ GateRelease
    /\ sc' = [sc EXCEPT ![c].pc = "done"]
    /\ FamReturn(sc[c].psid, FALSE)
    /\ UNCHANGED <<holds, txn, now, gate_limit, calls>>
    /\ UNCHANGED <<backend, gates, idemp, sessions, pendings, store_ops>> /\ UNCHANGED webVars /\ UNCHANGED batchVars /\ UNCHANGED gateVars /\ UNCHANGED invVars

\* a gated relational operation that runs to completion needs a free permit
Admitted == backend = "redis" \/ db_gate > 0

\* an insert that leaves a record that is there already (DO NOTHING / NX)
UpsertIfAbsent(tbl, psid, v) ==
    IF tbl[psid] # NULL THEN tbl ELSE [tbl EXCEPT ![psid] = v]

\* HSET / ZADD on the key or member, INSERT ... ON CONFLICT (psid) DO UPDATE:
\* the record of psid is written whether or not there was one
Upsert(tbl, psid, v) == [tbl EXCEPT ![psid] = v]

\* save_payment_session: hash + expiry + index entry in one MULTI/EXEC, or the
\* two upserts of one transaction
save_payment_session(c, psid, created_at) ==
    /\ CallStart(c)
    /\ Admitted
    /\ sessions' = Upsert(sessions, psid, created_at)
    /\ pendings' = Upsert(pendings, psid, created_at)
    /\ sc' = [sc EXCEPT ![c] =
                [IdleCall EXCEPT !.op = "save", !.psid = psid, !.pc = "done",
                                 !.created_at = created_at]]
    /\ UNCHANGED pgVars
    /\ UNCHANGED <<backend, gates, idemp, uncommitted, fam>> /\ UNCHANGED webVars /\ UNCHANGED batchVars /\ UNCHANGED gateVars /\ UNCHANGED invVars

\* listed is history: whether psid was in the pending index at the time of
\* the call, that is, saved and not removed since
get_payment_session(c, psid) ==
    /\ CallStart(c)
    /\ Admitted
    /\ sc' = [sc EXCEPT ![c] =
                [IdleCall EXCEPT !.op = "get", !.psid = psid, !.pc = "done",
                                 !.ret = sessions[psid],
                                 !.listed = pendings[psid] # NULL]]
    /\ UNCHANGED pgVars
    /\ UNCHANGED <<backend, gates, idemp, uncommitted, sessions, pendings, fam>> /\ UNCHANGED webVars /\ UNCHANGED batchVars /\ UNCHANGED gateVars /\ UNCHANGED invVars

\* redis: zrem + delete of the hash; pg: DELETE FROM payment_sessions_pending
remove_pending(c, psid) ==
    /\ CallStart(c)
    /\ Admitted
    /\ pendings' = [pendings EXCEPT ![psid] = NULL]
    /\ sessions' = IF backend = "redis"
                   THEN [sessions EXCEPT ![psid] = NULL]
                   ELSE sessions
    /\ sc' = [sc EXCEPT ![c] =
                [IdleCall EXCEPT !.op = "remove", !.psid = psid, !.pc = "done"]]
    /\ UNCHANGED pgVars
    /\ UNCHANGED <<backend, gates, idemp, uncommitted, fam>> /\ UNCHANGED webVars /\ UNCHANGED batchVars /\ UNCHANGED gateVars /\ UNCHANGED invVars

\* ZREVRANGE / ORDER BY created_at DESC over the members of the index:
\* highest score first, equal scores by member, highest first
RECURSIVE ZRevRange(_)
ZRevRange(members) ==
    IF members = {} THEN <<>>
    ELSE LET m == CHOOSE p \in members : \A q \in members :
                     \/ pendings[q] < pendings[p]
                     \/ pendings[q] = pendings[p] /\ q <= p
         IN <<m>> \o ZRevRange(members \ {m})

\* "if not h" / "if created is None": the entry has no session record
HasRecord(psid) == sessions[psid] # NULL

\* the psids of a list, in order, that have a record (keep) or have none
RECURSIVE Filter(_, _, _)
Filter(list, i, keep) ==
    IF i > Len(list) THEN <<>>
    ELSE (IF HasRecord(list[i]) = keep THEN <<list[i]>> ELSE <<>>)
         \o Filter(list, i + 1, keep)

Members(list) == {list[i] : i \in DOMAIN list}

\* get_recent_payment_sessions, with a limit that covers the index.
\* pg: one gated transaction that counts, reads the index joined with the
\* sessions, and deletes the entries without a session.
\* redis: up to the return of _list_recent_psids (ZCARD, ZREVRANGE)
get_recent_payment_sessions(c) ==
    /\ CallStart(c)
    /\ Admitted
    /\ LET listed == ZRevRange({p \in Psids : pendings[p] # NULL})
           missing == Filter(listed, 1, FALSE) IN
       IF backend = "pg"
          THEN /\ pendings' = [p \in Psids |->
                                 IF p \in Members(missing) THEN NULL
                                 ELSE pendings[p]]
               /\ sc' = [sc EXCEPT ![c] =
                           [IdleCall EXCEPT !.op = "recent", !.pc = "done",
                                            !.total = Len(listed),
                                            !.psids = listed,
                                            !.items = Members(Filter(listed, 1, TRUE))]]
       ELSE /\ pendings' = pendings
            /\ sc' = [sc EXCEPT ![c] =
                        [IdleCall EXCEPT !.op = "recent", !.pc = "listed",
                                         !.total = Len(listed),
                                         !.psids = listed]]
    /\ UNCHANGED pgVars
    /\ UNCHANGED <<backend, gates, idemp, uncommitted, sessions, fam>> /\ UNCHANGED webVars /\ UNCHANGED batchVars /\ UNCHANGED gateVars /\ UNCHANGED invVars

\* redis: the pipeline of HGETALL returns; the loop over zip(psids, rows)
\* runs to its first "await self.remove_pending(psid)", or to the return
_get_payment_sessions(c) ==
    /\ sc[c].op = "recent"
    /\ sc[c].pc = "listed"
    /\ LET missing == Filter(sc[c].psids, 1, FALSE) IN
       sc' = [sc EXCEPT ![c].items = Members(Filter(sc[c].psids, 1, TRUE)),
                        ![c].missing = missing,
                        ![c].pc = IF missing = <<>> THEN "done"
                                  ELSE "house-keeping"]
    /\ UNCHANGED pgVars
    /\ UNCHANGED <<backend, gates, idemp, uncommitted, sessions, pendings, fam, store_ops>> /\ UNCHANGED webVars /\ UNCHANGED batchVars /\ UNCHANGED gateVars /\ UNCHANGED invVars

\* redis: the remove_pending of the loop for the next psid whose row was
\* empty: ZREM and DEL; then on to the next such psid, or the return
HouseKeeping(c) ==
    /\ sc[c].op = "recent"
    /\ sc[c].pc = "house-keeping"
    /\ LET psid == Head(sc[c].missing) IN
          /\ pendings' = [pendings EXCEPT ![psid] = NULL]
          /\ sessions' = [sessions EXCEPT ![psid] = NULL]
    /\ sc' = [sc EXCEPT ![c].missing = Tail(@),
                        ![c].pc = IF Tail(sc[c].missing) = <<>> THEN "done"
                                  ELSE "house-keeping"]
    /\ UNCHANGED pgVars
    /\ UNCHANGED <<backend, gates, idemp, uncommitted, fam, store_ops>> /\ UNCHANGED webVars /\ UNCHANGED batchVars /\ UNCHANGED gateVars /\ UNCHANGED invVars

\* redis: the hash ps:{psid} was written with EXPIRE ttl + 60 and lapses
SessionExpire(psid) ==
    /\ backend = "redis"
    /\ sessions[psid] # NULL
    /\ sessions' = [sessions EXCEPT ![psid] = NULL]
    /\ UNCHANGED pgVars
    /\ UNCHANGED <<backend, gates, idemp, uncommitted, pendings, sc, fam, store_ops>> /\ UNCHANGED webVars /\ UNCHANGED batchVars /\ UNCHANGED gateVars /\ UNCHANGED invVars

InitStore ==
    /\ holds = <<>>
    /\ txn = [t \in Txns |-> IdleTxn]
    /\ now = 0
    /\ gate_limit \in {IF g < 1 THEN 1 ELSE g : g \in GateLimits}
    /\ db_gate = gate_limit
    /\ calls = 0
    /\ backend \in {"redis", "pg"}
    /\ gates = {}
    /\ idemp = {}
    /\ uncommitted = {}
    /\ sessions = [p \in Psids |-> NULL]
    /\ pendings = [p \in Psids |-> NULL]
    /\ sc = [c \in Callers |-> IdleCall]
    /\ fam = [p \in Psids |-> [won |-> 0, lost |-> 0]]
    /\ store_ops = 0
    /\ InitWebIdle
    /\ InitBatchIdle
    /\ InitGateIdle
    /\ InitInvIdle

NextStore ==
    \/ \E c \in Callers, psid \in Psids, evt_id \in Events \cup {NULL} :
          fulfill_and_mark_event(c, psid, evt_id)
    \/ \E c \in Callers : MarkEventSeen(c)
    \/ \E c \in Callers : PgInsertGate(c)
    \/ \E c \in Callers : PgInsertIdem(c)
    \/ \E c \in Callers : PgCommit(c)
    \/ \E c \in Callers, psid \in Psids, created_at \in 0..MaxTime :
          save_payment_session(c, psid, created_at)
    \/ \E c \in Callers, psid \in Psids : get_payment_session(c, psid)
    \/ \E c \in Callers, psid \in Psids : remove_pending(c, psid)
    \/ \E c \in Callers : get_recent_payment_sessions(c)
    \/ \E c \in Callers : _get_payment_sessions(c)
    \/ \E c \in Callers : HouseKeeping(c)
    \/ \E psid \in Psids : SessionExpire(psid)

SpecStore == InitStore /\ [][NextStore]_vars

\* a fulfill_and_mark_event(psid, .) call that has not returned yet
FamRunning(psid) ==
    \E c \in Callers : sc[c].op = "fam" /\ sc[c].psid = psid /\ sc[c].pc # "done"

(***************************************************************************)
(* C9: for every psid, of all the fulfill_and_mark_event(psid, .) calls,   *)
(* concurrent or not and on either backend, exactly one returns            *)
(* already_fulfilled = false and every other returns true; and no store    *)
(* operation ever removes a gate that has been set.                        *)
(***************************************************************************)
C9_GateOnce ==
    /\ [](\A p \in Psids :
            /\ fam[p].won <= 1
            /\ (fam[p].won + fam[p].lost > 0 /\ ~FamRunning(p)) => fam[p].won = 1
            /\ fam[p].won + fam[p].lost > 0 => p \in gates)
    /\ [][gates \subseteq gates']_vars

\* two calls for one psid overlapped, both have returned, one won and one lost
C9_Witness ==
    \E p \in Psids :
        /\ fam[p].won = 1 /\ fam[p].lost >= 1
        /\ \A c \in Callers : sc[c].op = "fam" /\ sc[c].psid = p /\ sc[c].pc = "done"

\* what the contract prescribes for a returned call, from what the store held
\* when the call looked: pre_gate / pre_evt are recorded from the store itself
FamContract(r) ==
    IF r.pre_gate
    THEN r.already_fulfilled /\ r.event_seen = None /\ r.pre_evt = NULL
    ELSE /\ ~r.already_fulfilled
         /\ r.psid \in gates
         /\ IF r.evt = NULL
            THEN r.event_seen = None /\ r.pre_evt = NULL
            ELSE /\ r.evt \in idemp
                 /\ r.pre_evt # NULL
                 /\ r.event_seen = (IF r.pre_evt = 1 THEN "True" ELSE "False")

(***************************************************************************)
(* C10: fulfill_and_mark_event(psid, event_id), on both backends: if the   *)
(* gate for psid already existed it returns already_fulfilled = true,      *)
(* event_seen = nil and does not touch the event-seen key; otherwise it    *)
(* sets the gate and returns already_fulfilled = false with event_seen =   *)
(* nil when no event_id is given, true when the event key already existed, *)
(* false (the key now being set) when it did not.                          *)
(***************************************************************************)
C10_FamResult ==
    \A c \in Callers :
        (sc[c].op = "fam" /\ sc[c].pc = "done") => FamContract(sc[c])

\* all three outcomes with an event id have been returned side by side
C10_Witness ==
    \E c, d \in Callers :
        /\ sc[c].op = "fam" /\ sc[c].pc = "done" /\ sc[d].op = "fam" /\ sc[d].pc = "done"
        /\ sc[c].already_fulfilled /\ sc[c].evt # NULL
        /\ ~sc[d].already_fulfilled /\ sc[d].event_seen = "True"

(***************************************************************************)
(* TigerBeetle ledger: create_transfers on the budget accounts, which      *)
(* carry DEBITS_MUST_NOT_EXCEED_CREDITS and were credited with capacity.   *)
(***************************************************************************)
max_batch_size == MaxBatch

\* a transfer id handed out by tb.id() and not (yet) accepted by the ledger
NoXfer(r) == [res |-> r, st |-> "none"]

RECURSIVE DebitsOf(_, _, _, _)
DebitsOf(xf, r, states, i) ==
    IF i > Len(xf) THEN 0
    ELSE (IF xf[i].res = r /\ xf[i].st \in states THEN 1 ELSE 0)
         + DebitsOf(xf, r, states, i + 1)

debits_pending(xf, r) == DebitsOf(xf, r, {"pending"}, 1)
debits_posted(xf, r) == DebitsOf(xf, r, {"posted", "direct"}, 1)

\* one transfer of a batch: <<ledger after it, accepted?>>
create_transfer(xf, t) ==
    CASE t.flag \in {"PENDING", "NONE"} ->
           IF debits_pending(xf, t.res) + debits_posted(xf, t.res) + 1
                 > capacity(t.res)
           THEN <<xf, FALSE>>
           ELSE <<[xf EXCEPT ![t.id] =
                     [res |-> t.res,
                      st |-> IF t.flag = "PENDING" THEN "pending" ELSE "direct"]],
                  TRUE>>
      [] t.flag \in {"POST", "VOID"} ->
           IF t.pending_id \in 1..Len(xf) /\ xf[t.pending_id].st = "pending"
           THEN <<[xf EXCEPT ![t.pending_id].st =
                     IF t.flag = "POST" THEN "posted" ELSE "voided"],
                  TRUE>>
           ELSE <<xf, FALSE>>

\* client.create_transfers(batch): the transfers are applied in order; the
\* reply lists the failures by their index in the batch (from 0)
RECURSIVE create_transfers(_, _, _, _)
create_transfers(xf, batch, i, errs) ==
    IF i > Len(batch) THEN [xfers |-> xf, error_results |-> errs]
    ELSE LET one == create_transfer(xf, batch[i]) IN
         create_transfers(one[1], batch, i + 1,
                          IF one[2] THEN errs ELSE errs \cup {i - 1})

\* transfer lists built by the accounting functions
TPending(r, id) == [flag |-> "PENDING", res |-> r, id |-> id, pending_id |-> NULL]
TDirect(r, id) == [flag |-> "NONE", res |-> r, id |-> id, pending_id |-> NULL]
TPost(r, pid) == [flag |-> "POST", res |-> r, id |-> NULL, pending_id |-> pid]
TVoid(r, pid) == [flag |-> "VOID", res |-> r, id |-> NULL, pending_id |-> pid]

tb_hold_tickets(cls, id1, id2) ==
    <<TPending(res_name(cls), id1), TPending(RES_GOODIE, id2)>>
tb_book_immediately(cls, id1, id2) ==
    <<TDirect(res_name(cls), id1), TDirect(RES_GOODIE, id2)>>
tb_commit_order(th, gh, cls, try_goodie) ==
    <<TPost(res_name(cls), th)>>
      \o (IF try_goodie THEN <<TPost(RES_GOODIE, gh)>> ELSE <<>>)
tb_cancel_only_goodie(gh) == <<TVoid(RES_GOODIE, gh)>>
tb_cancel_order(th, gh, cls) ==
    <<TVoid(res_name(cls), th), TVoid(RES_GOODIE, gh)>>

\* "for transfer_error in transfer_errors: if transfer_error.index == 0 ..."
has_ticket(transfer_errors) == 0 \notin transfer_errors
has_goodie(transfer_errors, initial) == initial /\ 1 \notin transfer_errors

(***************************************************************************)
(* TransferBatcher                                                         *)
(***************************************************************************)
\* submit, under the lock: append the transfers and a completion
Enqueue(b, r, transfers) ==
    [_pending_transfers |-> b._pending_transfers \o transfers,
     _pending_completions |->
        Append(b._pending_completions,
               [start |-> Len(b._pending_transfers), num |-> Len(transfers),
                fut |-> r])]

\* "sub_slice = full_results[start:start + num]": the failures that fall into
\* a submission's slice, each still carrying its index in the batch
sub_results(error_results, start, num) ==
    {e \in error_results : start <= e /\ e < start + num}

\* the transfers of a submission that the ledger rejected, by their position
\* in the submission (kept for the properties, not seen by the caller)
Rejected(error_results, start, num) ==
    {i \in 0..(num - 1) : start + i \in error_results}

\* _flush resolving the futures: every waiting submitter gets its failures
Resolve(rq, completions, error_results) ==
    [s \in Slots |->
       IF \E i \in 1..Len(completions) : completions[i].fut = s
       THEN LET c == CHOOSE c \in {completions[i] : i \in 1..Len(completions)} :
                       c.fut = s IN
            [rq[s] EXCEPT !.waiting = FALSE,
                          !.errors = sub_results(error_results, c.start, c.num),
                          !.rejected = Rejected(error_results, c.start, c.num)]
       ELSE rq[s]]

EmptyBatcher == [_pending_transfers |-> <<>>, _pending_completions |-> <<>>]

\* submit(transfers) by request r, whose locals are already updated in rq and
\* whose fresh transfer ids are already in xf; a full batch is flushed at once
Submit(r, transfers, rq, xf) ==
    LET b == Enqueue(batcher, r, transfers)
        rw == [rq EXCEPT ![r].waiting = TRUE, ![r].ledger_called = TRUE] IN
    IF Len(b._pending_transfers) >= max_batch_size
    THEN LET res == create_transfers(xf, b._pending_transfers, 1, {}) IN
         /\ xfers' = res.xfers
         /\ req' = Resolve(rw, b._pending_completions, res.error_results)
         /\ batcher' = EmptyBatcher
    ELSE /\ xfers' = xf
         /\ req' = rw
         /\ batcher' = b

\* _delayed_flush: flush_timeout has passed
_flush ==
    /\ Len(batcher._pending_transfers) > 0
    /\ LET res == create_transfers(xfers, batcher._pending_transfers, 1, {}) IN
       /\ xfers' = res.xfers
       /\ req' = Resolve(req, batcher._pending_completions, res.error_results)
    /\ batcher' = EmptyBatcher
    /\ UNCHANGED pgVars /\ UNCHANGED storeVars /\ UNCHANGED batchVars /\ UNCHANGED gateVars /\ UNCHANGED invVars
    /\ UNCHANGED <<db_kind, orders, fkeys, evseen, hist, nreq>>

\* a pending transfer reaches its timeout and the ledger releases the amount
Expire(id) ==
    /\ id \in 1..Len(xfers)
    /\ xfers[id].st = "pending"
    /\ xfers' = [xfers EXCEPT ![id].st = "expired"]
    /\ UNCHANGED pgVars /\ UNCHANGED storeVars /\ UNCHANGED batchVars /\ UNCHANGED gateVars /\ UNCHANGED invVars
    /\ UNCHANGED <<db_kind, batcher, req, orders, fkeys, evseen, hist, nreq>>

(***************************************************************************)
(* HTTP handlers of tigerfans/server.py.  A step runs a handler from one   *)
(* await to the next.                                                      *)
(***************************************************************************)
ReqFree(r) == req[r].pc \in {"idle", "done"}

ReqStart(r) ==
    /\ ReqFree(r)
    /\ \A q \in 1..(r - 1) : ~ReqFree(q)
    /\ nreq < MaxReqs
    /\ nreq' = nreq + 1

Resp(code, idempotent, order_status) ==
    [code |-> code, idempotent |-> idempotent, order_status |-> order_status]

Outcome(o) ==
    [status |-> o.status, ticket_code |-> o.ticket_code, got_goodie |-> o.got_goodie]

\* the provider's idempotency_key of the event "kind" for a payment session
IdemKey(psid, kind) == <<psid, kind>>

\* history: a webhook execution performs its first side effect
HistEffect(h, rr, effect) ==
    IF effect /\ ~rr.did_effect
    THEN [h EXCEPT !.effects[rr.psid][rr.kind] = @ + 1]
    ELSE h

\* history: a webhook execution answers; the first one that processed an
\* event fixes the outcome the order had at that moment
HistDone(h, rr, resp, ords) ==
    IF resp.code = 200
    THEN [h EXCEPT !.completed = @ \cup {IdemKey(rr.psid, rr.kind)},
                   !.first_outcome[rr.psid] =
                       IF @ = NoOutcome /\ ~resp.idempotent
                       THEN Outcome(ords[rr.psid]) ELSE @]
    ELSE h

\* history: a delivery arrives while another one for its psid is in progress
HistStart(h, r, psid) ==
    IF \E q \in Slots \ {r} :
          req[q].op = "webhook" /\ req[q].psid = psid /\ req[q].pc # "done"
    THEN [h EXCEPT !.overlapped = @ \cup {psid}]
    ELSE h

\* transfers of the request's last submission that the ledger accepted
Accepted(rr, num) == Cardinality(rr.errors) < num

Returned(r, pc) == req[r].pc = pc /\ ~req[r].waiting

\* ---- request bodies
\* values of a field of the JSON payload: absent (None), a string (its
\* characters) or a non-zero number
JNull == [type |-> "null", chars |-> <<>>]
JStr(cs) == [type |-> "string", chars |-> cs]
JNum == [type |-> "number", chars |-> <<>>]
Emails ==
    {JNull, JNum, JStr(<<"a", "@", "b">>), JStr(<<" ", "a", "@", "b", ".", "c", " ">>)}
Classes == {"A", "B", "C"}
TICKET_CLASSES == {"A", "B"}

\* str.strip()
RECURSIVE lstrip(_)
lstrip(cs) == IF cs # <<>> /\ Head(cs) = " " THEN lstrip(Tail(cs)) ELSE cs
RECURSIVE rstrip(_)
rstrip(cs) ==
    IF cs # <<>> /\ cs[Len(cs)] = " " THEN rstrip(SubSeq(cs, 1, Len(cs) - 1)) ELSE cs
strip(cs) == rstrip(lstrip(cs))

\* "x or ''": None and the empty string are falsy
Truthy(v) == v.type = "number" \/ (v.type = "string" /\ v.chars # <<>>)

\* re.match(r"^[^@\s]+@[^@\s]+\.[^@\s]+$", email.strip()) on a non-empty string
is_valid_email(email) ==
    /\ email # <<>>
    /\ LET e == strip(email) IN
       \E a, d \in 1..Len(e) :
          /\ e[a] = "@" /\ e[d] = "."
          /\ 1 < a /\ a + 1 < d /\ d < Len(e)
          /\ \A k \in 1..Len(e) : k # a => e[k] \notin {"@", " "}

\* the checks at the head of create_checkout: 0 when the request passes,
\* else the status of the answer; an exception that is not an HTTPException
\* is answered with 500
CheckoutInput(cls, email) ==
    IF Truthy(email) /\ email.type # "string"
    THEN 500                           \* AttributeError: no attribute 'strip'
    ELSE IF ~is_valid_email(IF Truthy(email) THEN strip(email.chars) ELSE <<>>)
    THEN 400
    ELSE IF cls \notin TICKET_CLASSES
    THEN 400
    ELSE 0

\* a delivery to the webhook endpoint: the x-mockpay-signature header is
\* missing, differs from the HMAC of the body, or equals it; the body is a
\* JSON object, UTF-8 text that is not JSON, or bytes that are not UTF-8
Signatures == {"missing", "wrong", "expected"}
Bodies == {"object", "text", "bytes"}

\* only a JSON object carries payment_session_id and type
Deliveries ==
    [sig : Signatures, body : {"object"}, psid : OrderIds, kind : Kinds]
      \cup [sig : Signatures, body : Bodies \ {"object"}, psid : {NULL}, kind : {"-"}]

\* MockPay.verify_webhook: 0 when the event is returned, else the status
verify_webhook(sig, body) ==
    IF sig = "missing" \/ sig # "expected"
    THEN 400                           \* Invalid signature
    ELSE IF body = "bytes"
    THEN 500                           \* payload.decode(): UnicodeDecodeError
    ELSE IF body = "text"
    THEN 400                           \* Invalid JSON
    ELSE 0

\* the input error a request carries, "-" when it carries none
CheckoutError(cls, email) ==
    IF email.type # "string" \/ ~is_valid_email(email.chars) THEN "email"
    ELSE IF cls \notin {"A", "B"} THEN "class"
    ELSE "-"
WebhookError(sig, body) ==
    IF sig # "expected" THEN "signature"
    ELSE IF body # "object" THEN "body"
    ELSE "-"

\* the handler raises before its first await: the request is answered and
\* nothing else happens
Reject(r, op, input, code) ==
    /\ req' = [req EXCEPT ![r] = [IdleReq EXCEPT !.op = op, !.pc = "done",
                                     !.input = input,
                                     !.resp = Resp(code, FALSE, "-")]]
    /\ UNCHANGED <<xfers, batcher>>

\* ---- POST /api/checkout
create_checkout(r, cls, customer_email) ==
    /\ ReqStart(r)
    /\ IF CheckoutInput(cls, customer_email) # 0
       THEN Reject(r, "checkout", CheckoutError(cls, customer_email),
                   CheckoutInput(cls, customer_email))
       ELSE /\ Cardinality({o \in OrderIds : orders[o].status # "-"})
                 + Cardinality({q \in Slots : req[q].op = "checkout"
                                                /\ req[q].pc # "done"})
                 < NOrders
            /\ LET id1 == Len(xfers) + 1
                   id2 == Len(xfers) + 2 IN
               Submit(r, tb_hold_tickets(cls, id1, id2),
                      [req EXCEPT ![r] =
                         [IdleReq EXCEPT !.op = "checkout", !.pc = "hold",
                                         !.cls = cls,
                                         !.tb_transfer_id = id1,
                                         !.goodie_tb_transfer_id = id2]],
                      xfers \o <<NoXfer(res_name(cls)), NoXfer(RES_GOODIE)>>)
    /\ UNCHANGED pgVars /\ UNCHANGED storeVars /\ UNCHANGED batchVars /\ UNCHANGED gateVars /\ UNCHANGED invVars
    /\ UNCHANGED <<db_kind, orders, fkeys, evseen, hist>>

\* hold_tickets has returned: sold out (after voiding a goodie hold that was
\* granted), or the order and its payment session are created
CheckoutHeld(r) ==
    /\ Returned(r, "hold")
    /\ LET rr == req[r]
           ticket_ok == has_ticket(rr.errors)
           goodie_ok == has_goodie(rr.errors, TRUE)
           order_id == CHOOSE o \in OrderIds :
                          /\ orders[o].status = "-"
                          /\ \A n \in 1..(o - 1) : orders[n].status # "-" IN
       IF ~ticket_ok
       THEN /\ IF goodie_ok
               THEN Submit(r, tb_cancel_only_goodie(rr.goodie_tb_transfer_id),
                           [req EXCEPT ![r].pc = "cancel_goodie"], xfers)
               ELSE /\ req' = [req EXCEPT ![r].pc = "done",
                                          ![r].resp = Resp(500, FALSE, "-")]
                    /\ UNCHANGED <<xfers, batcher>>
            /\ UNCHANGED orders
       ELSE /\ orders' = [orders EXCEPT ![order_id] =
                  [status |-> "PENDING", cls |-> rr.cls,
                   tb_transfer_id |-> rr.tb_transfer_id,
                   goodie_tb_transfer_id |-> rr.goodie_tb_transfer_id,
                   try_goodie |-> goodie_ok,
                   ticket_code |-> FALSE, got_goodie |-> FALSE]]
            /\ req' = [req EXCEPT ![r].pc = "done", ![r].psid = order_id,
                                  ![r].try_goodie = goodie_ok,
                                  ![r].resp = Resp(200, FALSE, "PENDING")]
            /\ UNCHANGED <<xfers, batcher>>
    /\ UNCHANGED pgVars /\ UNCHANGED storeVars /\ UNCHANGED batchVars /\ UNCHANGED gateVars /\ UNCHANGED invVars
    /\ UNCHANGED <<db_kind, fkeys, evseen, hist, nreq>>

\* raise RuntimeError("Sold Out")
CheckoutSoldOut(r) ==
    /\ Returned(r, "cancel_goodie")
    /\ req' = [req EXCEPT ![r].pc = "done", ![r].resp = Resp(500, FALSE, "-")]
    /\ UNCHANGED pgVars /\ UNCHANGED storeVars /\ UNCHANGED batchVars /\ UNCHANGED gateVars /\ UNCHANGED invVars
    /\ UNCHANGED <<db_kind, xfers, batcher, orders, fkeys, evseen, hist, nreq>>

\* ---- POST /payments/webhook
\* the handler answers: rq holds the request's final locals, ords the order
\* store as this step leaves it
Answer(r, rq, resp, ords, h) ==
    /\ req' = [rq EXCEPT ![r].pc = "done", ![r].resp = resp]
    /\ orders' = ords
    /\ hist' = HistDone(h, rq[r], resp, ords)

\* redis SET key "1" NX on the order store's keys
NxSetAlways(keys, k) == TRUE
NxSet(keys, k) == k \notin keys

\* fulfill_success, step 1: the fulfillment gate
fulfill_success(r, rq, ords, h) ==
    LET rr == rq[r]
        ok == NxSet(fkeys, rr.psid) IN
    /\ fkeys' = fkeys \cup {rr.psid}
    /\ UNCHANGED evseen
    /\ IF ~ok
       THEN Answer(r, rq, Resp(200, TRUE, "PAID"), ords, h)
       ELSE /\ req' = [rq EXCEPT ![r].pc = "fs_write", ![r].gate_held = TRUE]
            /\ orders' = ords
            /\ hist' = h

\* fulfill_success, steps 2 and 3: the event key, then the MULTI/EXEC that
\* makes the order PAID
FulfillWrite(r) ==
    /\ req[r].pc = "fs_write"
    /\ LET rr == req[r]
           idem_key == IdemKey(rr.psid, rr.kind)
           ok2 == NxSet(evseen, idem_key) IN
       /\ evseen' = evseen \cup {idem_key}
       /\ IF ~ok2
          THEN Answer(r, req, Resp(200, TRUE, "PAID"), orders, hist)
          ELSE Answer(r, [req EXCEPT ![r].did_effect = TRUE],
                      Resp(200, FALSE, "PAID"),
                      [orders EXCEPT ![rr.psid].status = "PAID",
                                     ![rr.psid].ticket_code = TRUE,
                                     ![rr.psid].got_goodie = rr.gets_goodie],
                      [HistEffect(hist, rr, TRUE)
                         EXCEPT !.paid_writes[rr.psid] = @ + 1])
    /\ UNCHANGED pgVars /\ UNCHANGED storeVars /\ UNCHANGED batchVars /\ UNCHANGED gateVars /\ UNCHANGED invVars
    /\ UNCHANGED <<db_kind, xfers, batcher, fkeys, nreq>>

\* the primary key of fulfillment_keys / webhook_events_seen rejects the commit
IntegrityError(psid, idem) == psid \in fkeys \/ idem \in evseen

\* SQL path: the single transaction with all writes, or its rollback
SqlCommit(r, rq, h) ==
    LET rr == rq[r]
        idem == IdemKey(rr.psid, rr.kind)
        status == IF rr.kind = "succeeded"
                  THEN (IF rr.gets_ticket THEN "PAID" ELSE "PAID_UNFULFILLED")
                  ELSE (IF rr.kind = "failed" THEN "FAILED" ELSE "CANCELED")
        paid == rr.kind = "succeeded" /\ rr.gets_ticket IN
    IF IntegrityError(rr.psid, idem)
    THEN /\ Answer(r, rq, Resp(200, TRUE, status), orders, h)
         /\ UNCHANGED <<fkeys, evseen>>
    ELSE /\ fkeys' = fkeys \cup {rr.psid}
         /\ evseen' = evseen \cup {idem}
         /\ Answer(r, [rq EXCEPT ![r].gate_held = TRUE, ![r].did_effect = TRUE],
                   Resp(200, FALSE, status),
                   [orders EXCEPT
                      ![rr.psid].status = status,
                      ![rr.psid].ticket_code = IF paid THEN TRUE ELSE @,
                      ![rr.psid].got_goodie = IF paid THEN rr.gets_goodie ELSE @,
                      ![rr.psid].tb_transfer_id = rr.tb_transfer_id,
                      ![rr.psid].goodie_tb_transfer_id = rr.goodie_tb_transfer_id],
                   [HistEffect(h, rr, TRUE)
                      EXCEPT !.paid_writes[rr.psid] = IF paid THEN @ + 1 ELSE @])

\* an event whose kind is none of succeeded, failed, canceled, for an order
\* that is not fulfilled.  redis path: the final else of the handler raises
\* HTTPException(400).  SQL path: neither ledger branch is taken and the
\* handler goes on to its transaction, whose else branch sets CANCELED
Unsupported(r, rq, h) ==
    IF db_kind = "redis"
    THEN /\ Answer(r, rq, Resp(400, FALSE, "-"), orders, h)
         /\ UNCHANGED <<xfers, batcher, fkeys, evseen>>
    ELSE /\ SqlCommit(r, rq, h)
         /\ UNCHANGED <<xfers, batcher>>

\* a variant of the lookup that never misses
FoundAlways(o) == TRUE
\* "if not ps" / "if not order": the payment session and its order exist
Found(o) == o.status # "-"

\* the handler up to its first ledger call: look up session and order, the
\* early read-only idempotency check, then commit_order or cancel_order
payments_webhook(r, psid, kind, sig, body) ==
    /\ ReqStart(r)
    /\ IF verify_webhook(sig, body) # 0
       THEN /\ Reject(r, "webhook", WebhookError(sig, body), verify_webhook(sig, body))
            /\ UNCHANGED <<orders, hist, fkeys, evseen>>
       ELSE
       LET o == orders[psid]
           rr == [IdleReq EXCEPT !.op = "webhook", !.psid = psid, !.kind = kind,
                                 !.cls = o.cls,
                                 !.tb_transfer_id = o.tb_transfer_id,
                                 !.goodie_tb_transfer_id = o.goodie_tb_transfer_id,
                                 !.try_goodie = o.try_goodie,
                                 !.status = o.status,
                                 !.replay = IdemKey(psid, kind) \in hist.completed]
           rq == [req EXCEPT ![r] = rr]
           h == HistStart(hist, r, psid) IN
       IF ~Found(o)
       THEN /\ Answer(r, rq, Resp(404, FALSE, "-"), orders, hist)
            /\ UNCHANGED <<xfers, batcher, fkeys, evseen>>
       ELSE IF psid \in fkeys
       THEN /\ Answer(r, rq, Resp(200, TRUE, "-"), orders, h)
            /\ UNCHANGED <<xfers, batcher, fkeys, evseen>>
       ELSE IF kind \notin Kinds
       THEN Unsupported(r, rq, h)
       ELSE /\ IF kind = "succeeded"
               THEN Submit(r, tb_commit_order(rr.tb_transfer_id,
                                              rr.goodie_tb_transfer_id,
                                              rr.cls, rr.try_goodie),
                           [rq EXCEPT ![r].pc = "commit"], xfers)
               ELSE Submit(r, tb_cancel_order(rr.tb_transfer_id,
                                              rr.goodie_tb_transfer_id, rr.cls),
                           [rq EXCEPT ![r].pc = "cancel"], xfers)
            /\ hist' = h
            /\ UNCHANGED <<orders, fkeys, evseen>>
    /\ UNCHANGED pgVars /\ UNCHANGED storeVars /\ UNCHANGED batchVars /\ UNCHANGED gateVars /\ UNCHANGED invVars
    /\ UNCHANGED db_kind

\* commit_order has returned: PAID when the ticket was posted, else the
\* late-success attempt with book_immediately
WebhookCommitted(r) ==
    /\ Returned(r, "commit")
    /\ LET rr == req[r]
           effect == Accepted(rr, IF rr.try_goodie THEN 2 ELSE 1)
           gets_ticket == has_ticket(rr.errors)
           gets_goodie == has_goodie(rr.errors, rr.try_goodie)
           rq == [req EXCEPT ![r].gets_ticket = gets_ticket,
                             ![r].gets_goodie = gets_goodie,
                             ![r].ledger_ok = 0 \notin rr.rejected,
                             ![r].did_effect = @ \/ effect]
           h == HistEffect(hist, rr, effect)
           id1 == Len(xfers) + 1
           id2 == Len(xfers) + 2 IN
       IF ~gets_ticket
       THEN /\ Submit(r, tb_book_immediately(rr.cls, id1, id2),
                      [rq EXCEPT ![r].pc = "book",
                                 ![r].status = "PAID_UNFULFILLED",
                                 ![r].book_transfer_id = id1,
                                 ![r].book_goodie_id = id2],
                      xfers \o <<NoXfer(res_name(rr.cls)), NoXfer(RES_GOODIE)>>)
            /\ hist' = h
            /\ UNCHANGED <<orders, fkeys, evseen>>
       ELSE /\ IF db_kind = "redis"
               THEN fulfill_success(r, rq, orders, h)
               ELSE SqlCommit(r, rq, h)
            /\ UNCHANGED <<xfers, batcher>>
    /\ UNCHANGED pgVars /\ UNCHANGED storeVars /\ UNCHANGED batchVars /\ UNCHANGED gateVars /\ UNCHANGED invVars
    /\ UNCHANGED <<db_kind, nreq>>

\* book_immediately has returned
WebhookBooked(r) ==
    /\ Returned(r, "book")
    /\ LET rr == req[r]
           effect == Accepted(rr, 2)
           gets_ticket2 == has_ticket(rr.errors)
           gets_goodie2 == has_goodie(rr.errors, TRUE)
           rq == [req EXCEPT
                    ![r].gets_ticket = gets_ticket2,
                    ![r].gets_goodie = IF gets_ticket2 THEN @ \/ gets_goodie2 ELSE @,
                    ![r].tb_transfer_id =
                        IF gets_ticket2 THEN rr.book_transfer_id ELSE @,
                    ![r].goodie_tb_transfer_id =
                        IF gets_ticket2 THEN rr.book_goodie_id ELSE @,
                    ![r].ledger_ok = @ \/ 0 \notin rr.rejected,
                    ![r].did_effect = @ \/ effect]
           h == HistEffect(hist, rr, effect) IN
       IF db_kind = "redis"
       THEN IF gets_ticket2
            THEN \* best-effort update of the TB ids in the order hash
                 /\ orders' = [orders EXCEPT
                       ![rr.psid].tb_transfer_id = rr.book_transfer_id,
                       ![rr.psid].goodie_tb_transfer_id = rr.book_goodie_id]
                 /\ req' = [rq EXCEPT ![r].pc = "fs_gate", ![r].did_effect = TRUE]
                 /\ hist' = HistEffect(h, rq[r], TRUE)
                 /\ UNCHANGED <<fkeys, evseen>>
            ELSE /\ Answer(r, [rq EXCEPT ![r].did_effect = TRUE],
                           Resp(200, FALSE, "PAID_UNFULFILLED"),
                           [orders EXCEPT ![rr.psid].status = "PAID_UNFULFILLED"],
                           HistEffect(h, rq[r], TRUE))
                 /\ UNCHANGED <<fkeys, evseen>>
       ELSE SqlCommit(r, rq, h)
    /\ UNCHANGED pgVars /\ UNCHANGED storeVars /\ UNCHANGED batchVars /\ UNCHANGED gateVars /\ UNCHANGED invVars
    /\ UNCHANGED <<db_kind, xfers, batcher, nreq>>

\* redis path after the late booking: fulfill_success
FulfillGate(r) ==
    /\ req[r].pc = "fs_gate"
    /\ fulfill_success(r, req, orders, hist)
    /\ UNCHANGED pgVars /\ UNCHANGED storeVars /\ UNCHANGED batchVars /\ UNCHANGED gateVars /\ UNCHANGED invVars
    /\ UNCHANGED <<db_kind, xfers, batcher, nreq>>

\* cancel_order has returned: mark_failed_or_canceled, or the SQL commit
WebhookCanceled(r) ==
    /\ Returned(r, "cancel")
    /\ LET rr == req[r]
           effect == Accepted(rr, 2)
           new_status == IF rr.kind = "failed" THEN "FAILED" ELSE "CANCELED"
           rq == [req EXCEPT ![r].did_effect = @ \/ effect]
           h == HistEffect(hist, rr, effect) IN
       IF db_kind = "redis"
       THEN /\ Answer(r, [rq EXCEPT ![r].did_effect = TRUE],
                      Resp(200, FALSE, new_status),
                      [orders EXCEPT ![rr.psid].status = new_status],
                      HistEffect(h, rq[r], TRUE))
            /\ UNCHANGED <<fkeys, evseen>>
       ELSE SqlCommit(r, rq, h)
    /\ UNCHANGED pgVars /\ UNCHANGED storeVars /\ UNCHANGED batchVars /\ UNCHANGED gateVars /\ UNCHANGED invVars
    /\ UNCHANGED <<db_kind, xfers, batcher, nreq>>

InitWeb ==
    /\ holds = <<>>
    /\ txn = [t \in Txns |-> IdleTxn]
    /\ now = 0
    /\ gate_limit = 1
    /\ db_gate = gate_limit
    /\ calls = 0
    /\ InitStoreIdle
    /\ InitBatchIdle
    /\ InitGateIdle
    /\ InitInvIdle
    /\ db_kind \in {"redis", "sql"}
    /\ xfers = <<>>
    /\ batcher = EmptyBatcher
    /\ req = [r \in Slots |-> IdleReq]
    /\ orders = [o \in OrderIds |-> NoOrder]
    /\ fkeys = {}
    /\ evseen = {}
    /\ hist = [effects |-> [o \in OrderIds |-> [k \in EventKinds |-> 0]],
               paid_writes |-> [o \in OrderIds |-> 0],
               first_outcome |-> [o \in OrderIds |-> NoOutcome],
               completed |-> {}, overlapped |-> {}]
    /\ nreq = 0

NextWeb ==
    \/ \E r \in Slots, cls \in Classes, email \in Emails : create_checkout(r, cls, email)
    \/ \E r \in Slots : CheckoutHeld(r)
    \/ \E r \in Slots : CheckoutSoldOut(r)
    \/ \E r \in Slots, d \in Deliveries :
          payments_webhook(r, d.psid, d.kind, d.sig, d.body)
    \/ \E r \in Slots : WebhookCommitted(r)
    \/ \E r \in Slots : WebhookBooked(r)
    \/ \E r \in Slots : FulfillGate(r)
    \/ \E r \in Slots : FulfillWrite(r)
    \/ \E r \in Slots : WebhookCanceled(r)
    \/ _flush
    \/ \E id \in 1..Len(xfers) : Expire(id)

SpecWeb == InitWeb /\ [][NextWeb]_vars

\* the handlers under well-formed requests only, the deliveries validly
\* signed and of any kind
SignedDeliveries ==
    [sig : {"expected"}, body : {"object"}, psid : OrderIds, kind : EventKinds]

NextWebKinds ==
    \/ \E r \in Slots, cls \in TICKET_CLASSES :
          create_checkout(r, cls, JStr(<<"a", "@", "b", ".", "c">>))
    \/ \E r \in Slots : CheckoutHeld(r)
    \/ \E r \in Slots : CheckoutSoldOut(r)
    \/ \E r \in Slots, d \in SignedDeliveries :
          payments_webhook(r, d.psid, d.kind, d.sig, d.body)
    \/ \E r \in Slots : WebhookCommitted(r)
    \/ \E r \in Slots : WebhookBooked(r)
    \/ \E r \in Slots : FulfillGate(r)
    \/ \E r \in Slots : FulfillWrite(r)
    \/ \E r \in Slots : WebhookCanceled(r)
    \/ _flush
    \/ \E id \in 1..Len(xfers) : Expire(id)

SpecWebKinds == InitWeb /\ [][NextWebKinds]_vars

PaidOrders(cls) == {o \in OrderIds : orders[o].status = "PAID" /\ orders[o].cls = cls}
GoodieOrders == {o \in OrderIds : orders[o].got_goodie}

(***************************************************************************)
(* C2: end to end, in every reachable state and for each ticket class C,   *)
(* the number of orders with status PAID of class C is at most             *)
(* capacity(C), whatever the interleaving of checkouts and webhook         *)
(* deliveries and also when several callers' transfers share one batch.    *)
(***************************************************************************)
C2_PaidWithinCapacity ==
    \A cls \in {"A", "B"} : Cardinality(PaidOrders(cls)) <= capacity(res_name(cls))

(***************************************************************************)
(* C3: end to end, the number of orders recorded with got_goodie = true is *)
(* at most capacity(goodie); with goodie capacity 1 and one paid order in  *)
(* each class, exactly one of the two orders has got_goodie = true.        *)
(***************************************************************************)
C3_GoodiesWithinCapacity ==
    /\ Cardinality(GoodieOrders) <= capacity(RES_GOODIE)
    /\ (/\ capacity(RES_GOODIE) = 1
        /\ Cardinality(PaidOrders("A")) = 1
        /\ Cardinality(PaidOrders("B")) = 1)
       => Cardinality(GoodieOrders) = 1

Webhooks == {r \in Slots : req[r].op = "webhook"}

(***************************************************************************)
(* C4: for every provider idempotency key, at most one webhook execution   *)
(* performs side effects (a ledger post, void or fast book that the ledger *)
(* accepts, or an order-store write), however often and however            *)
(* concurrently the event is delivered.  (The claim asks the same of every *)
(* psid, which is stronger.)                                               *)
(***************************************************************************)
C4_OneSideEffectingExecution ==
    \A o \in OrderIds, k \in Kinds : hist.effects[o][k] <= 1

(***************************************************************************)
(* C5: a webhook execution issues a ledger post, void or fast book, and    *)
(* writes the order, only after it has acquired the fulfillment gate of    *)
(* the psid; an execution that did not acquire the gate issues no ledger   *)
(* call.                                                                   *)
(***************************************************************************)
C5_GateBeforeLedger ==
    \A r \in Webhooks :
        (req[r].ledger_called \/ req[r].did_effect) => req[r].gate_held

(***************************************************************************)
(* C6: for any sequence of webhook deliveries for one psid, one after the  *)
(* other, once all of them have been answered the order's durable status,  *)
(* ticket_code and got_goodie are what they were after the first fully     *)
(* processed event.                                                        *)
(***************************************************************************)
C6_FirstEventDecides ==
    \A o \in OrderIds :
        (/\ hist.first_outcome[o] # NoOutcome
         /\ o \notin hist.overlapped
         /\ \A r \in Webhooks : req[r].psid = o => req[r].pc = "done")
        => Outcome(orders[o]) = hist.first_outcome[o]

(***************************************************************************)
(* C7: when the same event is delivered again after its first delivery has *)
(* been answered, the second response is 200 with idempotent = true, and   *)
(* that execution changes neither the ledger nor the order store.          *)
(***************************************************************************)
C7_ReplayIsIdempotent ==
    \A r \in Webhooks :
        (req[r].pc = "done" /\ req[r].replay)
        => /\ req[r].resp.code = 200
           /\ req[r].resp.idempotent
           /\ ~req[r].did_effect

UsageAt(r, nowts) == SumQty(0, r, H_POSTED, 0, 1) + SumQty(0, r, H_PENDING, nowts, 1)

\* rows that transaction t has inserted or updated and not yet committed
Touched(t) == {i \in 1..Len(holds) : holds[i].owner = t \/ holds[i].lock = t}

(***************************************************************************)
(* C11: without concurrency, a reserve of one unit of R is accepted iff    *)
(* posted(R) + live_pending(R) + 1 <= capacity(R), for the ticket and for  *)
(* the goodie reserve of hold_tickets; a rejected reserve inserts no row   *)
(* of R and updates no existing row.                                       *)
(***************************************************************************)
C11_ReserveIffCapacity ==
    \A t \in Txns :
        /\ (txn[t].op = "hold" /\ txn[t].pc = "g_sold") =>
              /\ (txn[t].th # NULL) <=>
                     (UsageAt(txn[t].res, txn[t].now_ts) + 1 <= capacity(txn[t].res))
              /\ (txn[t].th = NULL) => Touched(t) = {}
        /\ (txn[t].op = "hold" /\ txn[t].pc = "commit") =>
              /\ (txn[t].gh # NULL) <=>
                     (UsageAt(RES_GOODIE, txn[t].now_ts) + 1 <= capacity(RES_GOODIE))
              /\ (txn[t].gh = NULL) =>
                     \A i \in Touched(t) : /\ holds[i].resource # RES_GOODIE
                                           /\ holds[i].lock # t

\* a reserve was rejected with R exactly at capacity, all of it taken by
\* reserves accepted before
C11_Witness ==
    \E t \in Txns :
        /\ txn[t].op = "hold" /\ txn[t].pc = "g_sold" /\ txn[t].th = NULL
        /\ UsageAt(txn[t].res, txn[t].now_ts) = capacity(txn[t].res)
        /\ \E i \in 1..Len(holds) :
              /\ holds[i].owner = 0 /\ holds[i].resource = txn[t].res
              /\ holds[i].status = H_PENDING

(***************************************************************************)
(* C12: after commit_order(id) has returned gets_ticket = True for a       *)
(* pending, unexpired hold, a second commit_order(id) updates no row and   *)
(* returns the same outcome, gets_ticket = True.                           *)
(***************************************************************************)
C12_RepostSameOutcome ==
    \A t \in Txns :
        (txn[t].op = "commit" /\ txn[t].follows = "post"
            /\ txn[t].pc \in {"post_g", "commit", "done"}) =>
                /\ holds[txn[t].th].lock # t
                /\ txn[t].gets_ticket

(***************************************************************************)
(* C13: after cancel_order(id) has returned, a commit_order(id) returns    *)
(* gets_ticket = False and does not update hold id: the hold stays as the  *)
(* void left it, voided and out of the capacity sum.                       *)
(***************************************************************************)
C13_PostAfterVoid ==
    \A t \in Txns :
        (txn[t].op = "commit" /\ txn[t].follows = "void"
            /\ txn[t].pc \in {"post_g", "commit", "done"}) =>
                /\ ~txn[t].gets_ticket
                /\ txn[t].th \notin Touched(t)
                /\ holds[txn[t].th].status # H_POSTED => holds[txn[t].th].nstatus # H_POSTED

\* the post has returned for a hold that the void before it had voided
C13_Witness ==
    \E t \in Txns :
        /\ txn[t].op = "commit" /\ txn[t].follows = "void" /\ txn[t].pc = "done"
        /\ holds[txn[t].th].status = H_VOIDED
        /\ holds[txn[t].th].expires_at > now

\* committed pending holds whose expires_at the clock has reached
Expired == {i \in 1..Len(holds) :
              /\ holds[i].owner = 0 /\ holds[i].status = H_PENDING
              /\ holds[i].expires_at # NULL /\ holds[i].expires_at <= now}

(***************************************************************************)
(* C14: once the clock has reached expires_at of a pending hold, no        *)
(* commit_order and no cancel_order changes it: no UPDATE matches the row  *)
(* from then on, its status stays pending and it is never posted.          *)
(***************************************************************************)
C14_ExpiredStaysPending ==
    [][\A i \in Expired :
          holds[i].lock = 0 => /\ holds'[i].lock = 0
                               /\ holds'[i].status = H_PENDING]_vars

\* committed rows of resource r
RowsOf(r) == {i \in 1..Len(holds) : holds[i].owner = 0 /\ holds[i].resource = r}

(***************************************************************************)
(* C15: a hold that was neither posted nor voided stops counting against   *)
(* capacity once its expires_at has passed, with no other call in between: *)
(* when every committed row of R is a pending hold whose expires_at is not *)
(* later than the clock reading of a new reserve, the reserve is accepted. *)
(***************************************************************************)
C15_ExpiredFreesCapacity ==
    \A t \in Txns :
        (/\ txn[t].op = "hold" /\ txn[t].pc = "g_sold"
         /\ \A i \in RowsOf(txn[t].res) :
               /\ holds[i].status = H_PENDING
               /\ holds[i].expires_at # NULL
               /\ holds[i].expires_at <= txn[t].now_ts)
        => txn[t].th # NULL

\* capacity 1 of R was taken by a hold that has expired and still is pending,
\* and a new reserve of R has been accepted
C15_Witness ==
    \E t \in Txns :
        /\ txn[t].op = "hold" /\ txn[t].pc = "g_sold" /\ txn[t].th # NULL
        /\ capacity(txn[t].res) = Cardinality(RowsOf(txn[t].res))
        /\ RowsOf(txn[t].res) # {}
        /\ \A i \in RowsOf(txn[t].res) :
              /\ holds[i].status = H_PENDING
              /\ holds[i].expires_at # NULL
              /\ holds[i].expires_at <= txn[t].now_ts

(***************************************************************************)
(* C16: in every step of the ledger, under every interleaving, rows are    *)
(* only added, a hold's status either stays or goes from pending to posted *)
(* or from pending to voided, and posted(R) does not decrease.             *)
(***************************************************************************)
C16_StatusOneWay ==
    [][/\ Len(holds') >= Len(holds)
       /\ \A i \in 1..Len(holds) :
             \/ holds'[i].status = holds[i].status
             \/ /\ holds[i].status = H_PENDING
                /\ holds'[i].status \in {H_POSTED, H_VOIDED}
       /\ \A r \in Resources : posted(r)' >= posted(r)]_vars

\* a hold has been voided, and a commit_order has returned after posting one
C16_Witness ==
    /\ \E i \in 1..Len(holds) : holds[i].owner = 0 /\ holds[i].status = H_VOIDED
    /\ \E t \in Txns :
          /\ txn[t].op = "commit" /\ txn[t].pc = "done" /\ txn[t].gets_ticket
          /\ holds[txn[t].th].status = H_POSTED

(***************************************************************************)
(* Checkout and webhook: rejected requests                                 *)
(***************************************************************************)
\* checkouts that have answered after the ledger rejected their ticket
\* reservation and hold_tickets reported it (ticket_ok False: no order made)
RejectedCheckouts ==
    {r \in Slots : /\ req[r].op = "checkout" /\ req[r].pc = "done"
                   /\ req[r].tb_transfer_id # NULL
                   /\ xfers[req[r].tb_transfer_id].st = "none"
                   /\ req[r].psid = NULL}

(***************************************************************************)
(* C17: a checkout whose ticket reservation was rejected answers 409     *)
(* Sold Out, has created no order and no payment session, and leaves no    *)
(* goodie reservation of its own pending.                                  *)
(***************************************************************************)
C17_SoldOutIs409 ==
    \A r \in RejectedCheckouts :
        /\ req[r].resp.code = 409
        /\ \A o \in OrderIds : orders[o].status # "-" =>
               orders[o].tb_transfer_id # req[r].tb_transfer_id
        /\ xfers[req[r].goodie_tb_transfer_id].st # "pending"

\* requests that carried an input error and have been answered
InputErrors == {r \in Slots : req[r].pc = "done" /\ req[r].input # "-"}

(***************************************************************************)
(* C18: a request with an input error (checkout with a class outside       *)
(* {A, B} or with a missing or malformed email; webhook with a missing or  *)
(* wrong signature, or correctly signed with a body that is not JSON) is   *)
(* answered with 400, and its handler has issued no ledger call and has    *)
(* written neither the session store nor the order store.                  *)
(***************************************************************************)
C18_InputErrorIs400 ==
    \A r \in InputErrors :
        /\ req[r].resp.code = 400
        /\ ~req[r].ledger_called
        /\ ~req[r].did_effect
        /\ ~req[r].gate_held

\* correctly signed deliveries whose payment_session_id matched no payment
\* session when the handler looked it up
Unmatched(rq) ==
    {r \in Slots : /\ rq[r].op = "webhook" /\ rq[r].input = "-"
                   /\ rq[r].psid # NULL /\ rq[r].status = "-"}

(***************************************************************************)
(* C19: a correctly signed webhook whose psid matches no payment session   *)
(* is answered with 404 at once; its handler issues no ledger call, takes  *)
(* no fulfillment gate and writes nothing, and the step that answers it    *)
(* leaves the ledger, the batcher queue, the order store, the fulfillment  *)
(* gates and the event-seen keys as they were.                             *)
(***************************************************************************)
C19_UnknownPsidIs404 ==
    /\ [](\A r \in Unmatched(req) :
             /\ req[r].pc = "done"
             /\ req[r].resp.code = 404
             /\ ~req[r].ledger_called /\ ~req[r].did_effect /\ ~req[r].gate_held)
    /\ [][\A r \in Unmatched(req') :
             req'[r] # req[r] =>
                UNCHANGED <<xfers, batcher, orders, fkeys, evseen>>]_vars

\* a delivery for a psid without a session was answered with 404 while
\* another psid has a session and an order
C19_Witness ==
    \E r \in Unmatched(req) :
        /\ req[r].pc = "done" /\ req[r].resp.code = 404
        /\ orders[req[r].psid].status = "-"
        /\ \E o \in OrderIds : orders[o].status # "-"

(***************************************************************************)
(* C20: with the SQL order store, the store holds a row for an order only  *)
(* once a succeeded webhook of its psid has been answered (checkout writes *)
(* none), and a row that exists is never written again.                    *)
(***************************************************************************)
C20_OrderRowAfterWebhookOnly ==
    /\ [](db_kind = "sql" =>
            \A o \in OrderIds :
               orders[o] # NoOrder => IdemKey(o, "succeeded") \in hist.completed)
    /\ [][db_kind = "sql" =>
            \A o \in OrderIds : orders[o] # NoOrder => orders'[o] = orders[o]]_vars

(***************************************************************************)
(* Webhook outcomes against the ledger                                     *)
(***************************************************************************)
\* succeeded executions that have been answered after processing the event
\* themselves (not turned away as a duplicate)
Processed(kinds) ==
    {r \in Slots : /\ req[r].op = "webhook" /\ req[r].pc = "done"
                   /\ req[r].kind \in kinds
                   /\ req[r].resp.code = 200 /\ ~req[r].resp.idempotent}

(***************************************************************************)
(* C21: a succeeded execution that processes the event makes the order     *)
(* PAID iff the ledger accepted its post of the ticket hold or, after      *)
(* rejecting it, accepted its direct booking; otherwise it makes the order *)
(* PAID_UNFULFILLED.  PAID_UNFULFILLED is written by nothing else: a step  *)
(* that sets it answers such an execution whose two ledger calls failed.   *)
(***************************************************************************)
C21_PaidIffLedgerAccepted ==
    /\ [](\A r \in Processed({"succeeded"}) :
             /\ req[r].resp.order_status = "PAID" <=> req[r].ledger_ok
             /\ req[r].resp.order_status \in {"PAID", "PAID_UNFULFILLED"})
    /\ [][\A o \in OrderIds :
             (orders'[o].status = "PAID_UNFULFILLED"
                 /\ orders[o].status # "PAID_UNFULFILLED") =>
             \E r \in Slots :
                /\ req[r].pc # "done" /\ req'[r].pc = "done"
                /\ req'[r].op = "webhook" /\ req'[r].kind = "succeeded"
                /\ req'[r].psid = o /\ ~req'[r].ledger_ok
                /\ req'[r].resp.order_status = "PAID_UNFULFILLED"]_vars

\* a pending transfer that still holds or has consumed its unit
Taken(id) == xfers[id].st \in {"pending", "posted", "direct"}

(***************************************************************************)
(* C22: a failed or canceled execution that processes the event leaves the *)
(* order's ticket hold and goodie hold released (voided, or expired        *)
(* before), and answers FAILED or CANCELED, never PAID.                    *)
(***************************************************************************)
C22_CancelReleasesHolds ==
    \A r \in Processed({"failed", "canceled"}) :
        /\ req[r].resp.order_status = (IF req[r].kind = "failed" THEN "FAILED"
                                                                  ELSE "CANCELED")
        /\ ~Taken(req[r].tb_transfer_id)
        /\ ~Taken(req[r].goodie_tb_transfer_id)

(***************************************************************************)
(* C23: whatever else shares the batch and wherever the submission lands   *)
(* in it, the failures that submit returns carry positions in the caller's *)
(* own list: the caller is told index i iff the ledger rejected its i-th   *)
(* transfer.                                                               *)
(***************************************************************************)
C23_FailuresAtLocalIndex ==
    \A r \in Slots : ~req[r].waiting => req[r].errors = req[r].rejected

(***************************************************************************)
(* SpecBatch: TransferBatcher and ChainedTransferBatcher on their own,     *)
(* under submit calls of any size arriving at any time.  The ledger is     *)
(* left out: only which transfers travel in which RPC, and which future is *)
(* resolved when, is of interest here.  Every region between two awaits is *)
(* one step; the lock is only ever held across code without an await, so   *)
(* acquiring it never suspends.                                            *)
(***************************************************************************)
BatcherKinds == {"TransferBatcher", "ChainedTransferBatcher"}

\* Task.done(): finished, or cancelled
done(t) == btask[t] \in {"done", "cancelled"}

\* how many transfers of submit call c travel in batch
InBatch(batch, c) == Cardinality({i \in DOMAIN batch : batch[i] = c})

\* history: the transfers of batch have left in an RPC
Sent(f, batch) ==
    [c \in Submitters |-> [f[c] EXCEPT !.sent = @ + InBatch(batch, c)]]

\* history: the RPC that carried batch has returned
Answered(f, batch) ==
    [c \in Submitters |-> [f[c] EXCEPT !.answered = @ + InBatch(batch, c)]]

\* submit, both classes: extend the queue, append (start_index, num, fut)
Queued(c, n) ==
    [transfers |-> bq \o [i \in 1..n |-> c],
     completions |-> Append(bcomp, [start |-> Len(bq), num |-> n, fut |-> c]),
     futs |-> [futs EXCEPT ![c] = [state |-> "waiting", num |-> n,
                                     sent |-> 0, answered |-> 0, got |-> 0,
                                     error |-> FALSE]]]

\* the loops that resolve the futures of a batch.  ChainedTransferBatcher
\* skips a future that is done already (guarded), on the normal path and in
\* the except branch alike; TransferBatcher sets the result unconditionally
RECURSIVE set_results(_, _, _, _)
set_results(f, completions, i, guarded) ==
    IF i > Len(completions) THEN f
    ELSE LET c == completions[i] IN
         set_results(IF guarded /\ f[c.fut].state = "done" THEN f
                     ELSE [f EXCEPT ![c.fut].state = "done",
                                    ![c.fut].got = c.num],
                     completions, i + 1, guarded)

\* the except branch of _process_next_batch: a future of the batch that is
\* not done gets num copies of an error result
RECURSIVE set_errors(_, _, _)
set_errors(f, completions, i) ==
    IF i > Len(completions) THEN f
    ELSE LET c == completions[i] IN
         set_errors(IF f[c.fut].state = "done" THEN f
                    ELSE [f EXCEPT ![c.fut].state = "done",
                                   ![c.fut].got = c.num,
                                   ![c.fut].error = TRUE],
                    completions, i + 1)

\* ---- TransferBatcher
\* _flush past its early return: the whole queue becomes one batch, another
\* flush task still pending is cancelled, _flush_task is cleared, and the
\* RPC is sent.  cur is the flush task running this, NULL inside submit
TransferBatcher_flush(q, f, cur) ==
    /\ bq' = <<>>
    /\ bcomp' = <<>>
    /\ rpcs' = rpcs \cup {[by |-> cur, batch |-> q.transfers,
                           completions |-> q.completions]}
    /\ futs' = Sent(f, q.transfers)
    /\ btask' = [t \in Tasks |->
                    IF t = cur THEN "rpc"
                    ELSE IF t = bref /\ ~done(t) THEN "cancelled"
                    ELSE btask[t]]
    /\ bref' = NULL

\* submit(transfers), up to its first suspension
TransferBatcher_submit(c, n) ==
    /\ bkind = "TransferBatcher"
    /\ futs[c].state = "none"
    /\ LET q == Queued(c, n)
           should_flush_now == Len(q.transfers) >= max_batch_size
           should_schedule_delayed == bref = NULL \/ done(bref)
       IN IF should_flush_now
             THEN TransferBatcher_flush(q, q.futs, NULL)
          ELSE /\ bq' = q.transfers
               /\ bcomp' = q.completions
               /\ futs' = q.futs
               /\ rpcs' = rpcs
               /\ IF should_schedule_delayed
                     THEN /\ btask' = [btask EXCEPT ![c] = "sleeping"]
                          /\ bref' = c
                     ELSE UNCHANGED <<btask, bref>>
    /\ UNCHANGED <<bkind, bflush>>
    /\ UNCHANGED pgVars /\ UNCHANGED storeVars /\ UNCHANGED webVars /\ UNCHANGED gateVars /\ UNCHANGED invVars

\* _delayed_flush: the sleep is over; _flush returns at once on an empty
\* queue, leaving _flush_task pointing at this finished task
_delayed_flush(t) ==
    /\ bkind = "TransferBatcher"
    /\ btask[t] = "sleeping"
    /\ IF bq = <<>>
          THEN /\ btask' = [btask EXCEPT ![t] = "done"]
               /\ UNCHANGED <<bq, bcomp, bref, rpcs, futs>>
          ELSE TransferBatcher_flush([transfers |-> bq, completions |-> bcomp],
                                     futs, t)
    /\ UNCHANGED <<bkind, bflush>>
    /\ UNCHANGED pgVars /\ UNCHANGED storeVars /\ UNCHANGED webVars /\ UNCHANGED gateVars /\ UNCHANGED invVars

\* _flush after the RPC: every future of the batch gets its slice
TransferBatcher_answered(rpc) ==
    /\ bkind = "TransferBatcher"
    /\ rpc \in rpcs
    /\ rpcs' = rpcs \ {rpc}
    /\ futs' = set_results(Answered(futs, rpc.batch), rpc.completions, 1, FALSE)
    /\ btask' = [t \in Tasks |-> IF t = rpc.by THEN "done" ELSE btask[t]]
    /\ UNCHANGED <<bkind, bq, bcomp, bref, bflush>>
    /\ UNCHANGED pgVars /\ UNCHANGED storeVars /\ UNCHANGED webVars /\ UNCHANGED gateVars /\ UNCHANGED invVars

\* create_transfers raises inside _flush, which has no handler: no future
\* of the batch is touched.  In a flush task _delayed_flush prints the
\* exception and ends; inline, the exception leaves the submit call that
\* ran _flush, the one that queued last
TransferBatcher_raised(rpc) ==
    /\ bkind = "TransferBatcher"
    /\ rpc \in rpcs
    /\ rpcs' = rpcs \ {rpc}
    /\ futs' = IF rpc.by = NULL
                  THEN [futs EXCEPT
                          ![rpc.completions[Len(rpc.completions)].fut].state =
                              "raised"]
               ELSE futs
    /\ btask' = [t \in Tasks |-> IF t = rpc.by THEN "done" ELSE btask[t]]
    /\ UNCHANGED <<bkind, bq, bcomp, bref, bflush>>
    /\ UNCHANGED pgVars /\ UNCHANGED storeVars /\ UNCHANGED webVars /\ UNCHANGED gateVars /\ UNCHANGED invVars

\* ---- ChainedTransferBatcher
\* self._lock is held across an await by flush_now only; "async with
\* self._lock" goes through at once when it is free, and waits else
LockFree == bflush = "none"

\* list.remove(x): drop the first element equal to x
remove(list, x) ==
    LET i == CHOOSE k \in DOMAIN list :
                 list[k] = x /\ \A j \in 1..(k - 1) : list[j] # x
    IN SubSeq(list, 1, i - 1) \o SubSeq(list, i + 1, Len(list))

\* "Adjust completions for this batch": walk a copy of _pending_completions;
\* a completion that ends inside the batch moves to the batch, one that
\* starts inside it is split and ends the walk, any other stays as it is
RECURSIVE Adjust(_, _, _, _, _)
Adjust(copy, i, batch_size, batch_completions, pending) ==
    IF i > Len(copy)
       THEN [batch |-> batch_completions, pending |-> pending]
    ELSE LET c == copy[i] IN
         IF c.start + c.num <= batch_size
            THEN Adjust(copy, i + 1, batch_size,
                        Append(batch_completions, c), remove(pending, c))
         ELSE IF c.start < batch_size
            THEN LET this_batch_num == batch_size - c.start
                     next_batch_start == batch_size
                     next_batch_num == c.num - this_batch_num
                 IN [batch |-> Append(batch_completions,
                                      [c EXCEPT !.num = this_batch_num]),
                     pending |-> Append(remove(pending, c),
                                        [start |-> next_batch_start,
                                         num |-> next_batch_num,
                                         fut |-> c.fut])]
         ELSE Adjust(copy, i + 1, batch_size, batch_completions, pending)

\* a submit that starts a worker whatever is registered
ChainIdleAlways == TRUE

\* submit starts the chain when no worker is registered or the one
\* registered has finished
ChainIdle == bref = NULL \/ done(bref)

\* submit(transfers), up to its suspension on the future
ChainedTransferBatcher_submit(c, n) ==
    /\ bkind = "ChainedTransferBatcher"
    /\ futs[c].state = "none"
    /\ LockFree
    /\ LET q == Queued(c, n) IN
          /\ bq' = q.transfers
          /\ bcomp' = q.completions
          /\ futs' = q.futs
    /\ IF ChainIdle
          THEN /\ btask' = [btask EXCEPT ![c] = "created"]
               /\ bref' = c
          ELSE UNCHANGED <<btask, bref>>
    /\ UNCHANGED <<bkind, rpcs, bflush>>
    /\ UNCHANGED pgVars /\ UNCHANGED storeVars /\ UNCHANGED webVars /\ UNCHANGED gateVars /\ UNCHANGED invVars

\* self._pending_transfer_params[batch_size:]: what stays queued
Rest(queue, batch_size) == SubSeq(queue, batch_size + 1, Len(queue))

\* one turn of the loop of _process_next_batch by worker t, from the top of
\* the loop to the await of the RPC: on an empty queue the worker
\* unregisters and ends; else it cuts a batch of at most max_batch_size
\* and sends it.  f is the futures, others the RPCs of other tasks
NextBatch(t, f, others) ==
    IF bq = <<>>
       THEN /\ bref' = NULL
            /\ btask' = [btask EXCEPT ![t] = "done"]
            /\ rpcs' = others
            /\ futs' = f
            /\ UNCHANGED <<bq, bcomp>>
    ELSE LET batch_size == IF Len(bq) < max_batch_size THEN Len(bq)
                           ELSE max_batch_size
             params_batch == SubSeq(bq, 1, batch_size)
             adj == Adjust(bcomp, 1, batch_size, <<>>, bcomp)
         IN /\ bq' = Rest(bq, batch_size)
            /\ bcomp' = adj.pending
            /\ rpcs' = others \cup {[by |-> t, batch |-> params_batch,
                                     completions |-> adj.batch]}
            /\ futs' = Sent(f, params_batch)
            /\ btask' = [btask EXCEPT ![t] = "rpc"]
            /\ UNCHANGED bref

\* the worker task created by submit gets to run
_process_next_batch(t) ==
    /\ bkind = "ChainedTransferBatcher"
    /\ btask[t] = "created"
    /\ LockFree
    /\ NextBatch(t, futs, rpcs)
    /\ UNCHANGED <<bkind, bflush>>
    /\ UNCHANGED pgVars /\ UNCHANGED storeVars /\ UNCHANGED webVars /\ UNCHANGED gateVars /\ UNCHANGED invVars

\* "chain to next batch": the worker goes round the loop when the lock is
\* free, and waits for the lock, the futures resolved, when it is held
Chain(t, f, others) ==
    IF LockFree
       THEN NextBatch(t, f, others)
    ELSE /\ btask' = [btask EXCEPT ![t] = "created"]
         /\ rpcs' = others
         /\ futs' = f
         /\ UNCHANGED <<bq, bcomp, bref>>

\* the RPC of the worker returns: the futures of the batch that are not
\* done are resolved with their slice, then the loop goes round: "chain to
\* next batch", or unregister and end
ChainedTransferBatcher_answered(rpc) ==
    /\ bkind = "ChainedTransferBatcher"
    /\ rpc \in rpcs
    /\ Chain(rpc.by,
             set_results(Answered(futs, rpc.batch), rpc.completions, 1, TRUE),
             rpcs \ {rpc})
    /\ UNCHANGED <<bkind, bflush>>
    /\ UNCHANGED pgVars /\ UNCHANGED storeVars /\ UNCHANGED webVars /\ UNCHANGED gateVars /\ UNCHANGED invVars

\* the RPC of the worker raises: the futures of the batch that are not
\* done are resolved with error results, then the loop goes round
ChainedTransferBatcher_raised(rpc) ==
    /\ bkind = "ChainedTransferBatcher"
    /\ rpc \in rpcs
    /\ Chain(rpc.by, set_errors(futs, rpc.completions, 1), rpcs \ {rpc})
    /\ UNCHANGED <<bkind, bflush>>
    /\ UNCHANGED pgVars /\ UNCHANGED storeVars /\ UNCHANGED webVars /\ UNCHANGED gateVars /\ UNCHANGED invVars

\* flush_now: with the lock taken, the registered worker is cancelled
\* unless done (CancelledError ends it at its await, past "except
\* Exception", and the answer of its RPC is lost), a new worker is created
\* and registered, and flush_now awaits it without giving up the lock; it
\* returns, releasing the lock, once that worker is done
flush_now ==
    /\ bkind = "ChainedTransferBatcher"
    /\ IF LockFree
          THEN /\ btask[FlushTask] = "none"
               /\ bflush' = "holding"
               /\ btask' = [t \in Tasks |->
                               IF t = FlushTask THEN "created"
                               ELSE IF t = bref /\ ~done(t) THEN "cancelled"
                               ELSE btask[t]]
               /\ bref' = FlushTask
               /\ rpcs' = {rpc \in rpcs : rpc.by # bref}
               /\ UNCHANGED <<bq, bcomp, futs>>
       ELSE /\ done(FlushTask)
            /\ bflush' = "none"
            /\ UNCHANGED <<bq, bcomp, bref, btask, rpcs, futs>>
    /\ UNCHANGED bkind
    /\ UNCHANGED pgVars /\ UNCHANGED storeVars /\ UNCHANGED webVars /\ UNCHANGED gateVars /\ UNCHANGED invVars

InitBatch ==
    /\ holds = <<>>
    /\ txn = [t \in Txns |-> IdleTxn]
    /\ now = 0
    /\ gate_limit = 1
    /\ db_gate = gate_limit
    /\ calls = 0
    /\ InitStoreIdle
    /\ InitWebIdle
    /\ bkind \in BatcherKinds
    /\ bq = <<>>
    /\ bcomp = <<>>
    /\ bref = NULL
    /\ btask = [t \in Tasks |-> "none"]
    /\ rpcs = {}
    /\ futs = [c \in Submitters |-> NoFut]
    /\ bflush = "none"
    /\ InitGateIdle
    /\ InitInvIdle

NextBatcher ==
    \/ \E c \in Submitters, n \in SubSizes : TransferBatcher_submit(c, n)
    \/ \E t \in Submitters : _delayed_flush(t)
    \/ \E rpc \in rpcs : TransferBatcher_answered(rpc)
    \/ \E c \in Submitters, n \in SubSizes : ChainedTransferBatcher_submit(c, n)
    \/ \E t \in Tasks : _process_next_batch(t)
    \/ \E rpc \in rpcs : ChainedTransferBatcher_answered(rpc)

SpecBatch == InitBatch /\ [][NextBatcher]_vars

\* the batchers with the RPCs that raise and with the force flush
NextBatcherAll ==
    \/ NextBatcher
    \/ \E rpc \in rpcs : TransferBatcher_raised(rpc)
    \/ \E rpc \in rpcs : ChainedTransferBatcher_raised(rpc)
    \/ flush_now

SpecBatchAll == InitBatch /\ [][NextBatcherAll]_vars

(***************************************************************************)
(* C24: if every ledger RPC returns, every submit call returns, and only   *)
(* after all of its transfers have been sent and answered, also when the   *)
(* queue holds more than max_batch_size items and a submission is split    *)
(* across batches or deferred to a later batch.  Stated on finite runs: a  *)
(* future that is resolved has had all its transfers answered, and when    *)
(* the queue is empty, no RPC is out and no task is left to run, no future *)
(* is still waiting (nothing could resolve it any more).                   *)
(***************************************************************************)
Quiescent ==
    /\ bq = <<>>
    /\ rpcs = {}
    /\ \A t \in Tasks : btask[t] \notin {"sleeping", "created", "rpc"}

C24_SubmitReturnsAfterAll ==
    \A c \in Submitters :
        /\ futs[c].state = "done" => futs[c].answered = futs[c].num
        /\ Quiescent => futs[c].state # "waiting"

(***************************************************************************)
(* C29: no RPC sent by a batcher carries more than max_batch_size          *)
(* transfers, for any pattern of concurrent submit calls and any           *)
(* submission sizes.                                                       *)
(***************************************************************************)
C29_RpcWithinMaxBatch ==
    \A rpc \in rpcs : Len(rpc.batch) <= max_batch_size

(***************************************************************************)
(* C30: chained batcher, any interleaving of submit calls: whenever the    *)
(* pending queue is non-empty a worker task is running, at most one worker *)
(* task is running at any time, and the worker unregisters itself only     *)
(* when it observes the queue empty (it does so inside the locked region,  *)
(* in the step in which it ends).                                          *)
(***************************************************************************)
Workers == {t \in Tasks : btask[t] \in {"created", "rpc"}}

C30_OneWorkerWhileQueued ==
    /\ [](bkind = "ChainedTransferBatcher" =>
             /\ bq # <<>> => Workers # {}
             /\ Cardinality(Workers) <= 1
             /\ Workers \subseteq {bref})
    /\ [][(bkind = "ChainedTransferBatcher" /\ bref # NULL /\ bref' = NULL) =>
             /\ bq = <<>> /\ bq' = <<>>
             /\ btask[bref] \in {"created", "rpc"} /\ btask'[bref] = "done"]_vars

\* a second worker has been started after the first one ended, and it is in
\* its RPC while more transfers wait
C30_Witness ==
    /\ bkind = "ChainedTransferBatcher"
    /\ bq # <<>>
    /\ \E t1, t2 \in Submitters : btask[t1] = "done" /\ btask[t2] = "rpc"

(***************************************************************************)
(* SpecGate: "async with gated(): ..." on its own.  The body of a section  *)
(* is left open: it may run to its end, return early, or raise (an SQL     *)
(* error, a CancelledError); which SQL it runs is of no interest here.     *)
(***************************************************************************)
\* the ways control leaves the body of "async with gated()"
Exits == {"end", "return", "raise"}

\* a release that is skipped unless the body ran to its end
ReleasesAtEndOnly(how) == how = "end"

\* try: yield / finally: sem.release() -- on every way out
Releases(how) == how \in Exits

\* await sem.acquire(), then the body starts; a caller that finds no permit
\* waits outside until one is released
_gated_enter(c) ==
    /\ sect[c].pc = "out"
    /\ GateAcquire
    /\ sect' = [sect EXCEPT ![c].pc = "inside"]
    /\ UNCHANGED <<holds, txn, now, gate_limit, calls>>
    /\ UNCHANGED storeVars /\ UNCHANGED webVars /\ UNCHANGED batchVars /\ UNCHANGED invVars

\* the body is left, the finally clause runs
_gated_exit(c, how) ==
    /\ sect[c].pc = "inside"
    /\ IF Releases(how) THEN GateRelease ELSE UNCHANGED db_gate
    /\ sect' = [sect EXCEPT ![c] = [pc |-> "out", left |-> how]]
    /\ UNCHANGED <<holds, txn, now, gate_limit, calls>>
    /\ UNCHANGED storeVars /\ UNCHANGED webVars /\ UNCHANGED batchVars /\ UNCHANGED invVars

InitGate ==
    /\ holds = <<>>
    /\ txn = [t \in Txns |-> IdleTxn]
    /\ now = 0
    /\ gate_limit \in {IF g < 1 THEN 1 ELSE g : g \in GateLimits}
    /\ db_gate = gate_limit
    /\ calls = 0
    /\ InitStoreIdle
    /\ InitWebIdle
    /\ InitBatchIdle
    /\ InitGateIdle
    /\ InitInvIdle

NextGate ==
    \/ \E c \in GateCallers : _gated_enter(c)
    \/ \E c \in GateCallers, how \in Exits : _gated_exit(c, how)

SpecGate == InitGate /\ [][NextGate]_vars

(***************************************************************************)
(* C25: at any time the number of callers inside a gated SQL section is    *)
(* at most the gate limit, max(1, configured limit), and the permit is     *)
(* returned on every exit path, also when the SQL raises or the section    *)
(* returns early: the free permits are the limit minus the callers inside, *)
(* hence back at the limit whenever no section is active.                  *)
(***************************************************************************)
InsideGate == {c \in GateCallers : sect[c].pc = "inside"}

C25_GatePermits ==
    /\ gate_limit >= 1
    /\ Cardinality(InsideGate) <= gate_limit
    /\ db_gate = gate_limit - Cardinality(InsideGate)

\* sections have been left by a raise and by an early return, none is
\* active now
C25_Witness ==
    /\ InsideGate = {}
    /\ \E c1, c2 \in GateCallers : sect[c1].left = "raise" /\ sect[c2].left = "return"

(***************************************************************************)
(* C26: the key-value and the relational payment-session store are         *)
(* observationally equivalent for save_session, get_session,               *)
(* remove_pending and fulfill_and_mark_event; in particular, after         *)
(* remove_pending(psid), get_session(psid) returns nil on both.  Checked   *)
(* in that particular: a get_session of a psid that is not in the pending  *)
(* index (never saved, or removed since it was last saved) returns nil,    *)
(* whichever the backend.                                                  *)
(***************************************************************************)
C26_RemovedSessionIsGone ==
    \A c \in Callers :
        (sc[c].op = "get" /\ sc[c].pc = "done" /\ ~sc[c].listed) =>
            sc[c].ret = NULL

(***************************************************************************)
(* C27: save_session(psid, X) twice is the same as once, on both backends: *)
(* after each save there is one session record for psid, equal to X, and   *)
(* one pending-index entry for it; no other psid is touched; and a save    *)
(* of the X that is stored already leaves the store as it is.              *)
(***************************************************************************)
\* the step is a save_payment_session(psid, X) by caller c
SaveStep(c, psid, X) ==
    /\ store_ops' = store_ops + 1
    /\ CallFree(c) /\ \A d \in 1..(c - 1) : ~CallFree(d)
    /\ sc'[c].op = "save" /\ sc'[c].psid = psid /\ sc'[c].created_at = X

C27_SaveIdempotent ==
    [][\A c \in Callers, psid \in Psids, X \in 0..MaxTime :
          SaveStep(c, psid, X) =>
             /\ sessions'[psid] = X
             /\ pendings'[psid] = X
             /\ \A q \in Psids \ {psid} :
                   sessions'[q] = sessions[q] /\ pendings'[q] = pendings[q]
             /\ (sessions[psid] = X /\ pendings[psid] = X) =>
                   (sessions' = sessions /\ pendings' = pendings)]_vars

\* the same save has been made twice, by two callers
C27_Witness ==
    \E c1, c2 \in Callers :
        /\ c1 # c2
        /\ sc[c1].op = "save" /\ sc[c1].pc = "done"
        /\ sc[c2].op = "save" /\ sc[c2].pc = "done"
        /\ sc[c1].psid = sc[c2].psid /\ sc[c1].created_at = sc[c2].created_at
        /\ sessions[sc[c1].psid] = sc[c1].created_at
        /\ pendings[sc[c1].psid] = sc[c1].created_at

(***************************************************************************)
(* SpecInv: compute_inventory, the read behind GET /api/inventory, in its  *)
(* three implementations, over a ledger that no one writes meanwhile.      *)
(*   "pg"    model/accounting/_postgres.py: the holds table, one gated     *)
(*           transaction, now_ts read before the gate                     *)
(*   "tb"    model/accounting/_tigerbeetle.py: lookup_accounts             *)
(*   "tbdb"  model/tigerbeetledb.py: lookup_accounts                       *)
(* A TigerBeetle account carries in credits_pending the pending transfers  *)
(* that have not timed out; the ledger removes the others by itself.       *)
(***************************************************************************)
InvImpls == {"pg", "tb", "tbdb"}
TicketClasses == {"A", "B"}

\* model/tigerbeetledb.py has capacities of its own, and they differ
\* (100 and 500); scaled down
TbdbAmountA == 1
TbdbAmountB == 2
MaxInvRows == 2

\* TicketAmount_Class_A / TicketAmount_Class_B of the implementation
TicketAmount(impl, ticket_class) ==
    IF impl = "tbdb"
       THEN (IF ticket_class = "A" THEN TbdbAmountA ELSE TbdbAmountB)
    ELSE capacity(res_name(ticket_class))

\* one entry of the snapshot
InvEntry(cap, sold, held, available) ==
    [capacity |-> cap, sold |-> sold, active_holds |-> held,
     available |-> available, sold_out |-> available <= 0]

\* _postgres.compute_inventory: stats = _available_units(res_name, now_ts)
pg_compute_inventory(nowts) ==
    [ticket_class \in TicketClasses |->
        LET r == res_name(ticket_class)
            sold == Sold(0, r)
        IN InvEntry(TicketAmount("pg", ticket_class), sold, Held(0, r, nowts),
                    _available_units(0, r, sold, nowts))]

\* _tigerbeetle.compute_inventory: budget is the class's own, and so is
\* "capacity"
tb_compute_inventory(accounts) ==
    [ticket_class \in TicketClasses |->
        LET sold == accounts[ticket_class].credits_posted
            held == accounts[ticket_class].credits_pending
            budget == TicketAmount("tb", ticket_class)
            available == budget - sold - held
        IN InvEntry(budget, sold, held, available)]

\* tigerbeetledb.compute_inventory: budget is the class's own, "capacity" is
\* TicketAmount_Class_A for either class
tbdb_compute_inventory(accounts) ==
    [ticket_class \in TicketClasses |->
        LET sold == accounts[ticket_class].credits_posted
            held == accounts[ticket_class].credits_pending
            budget == TicketAmount("tbdb", ticket_class)
            available == budget - sold - held
        IN InvEntry(TicketAmount("tbdb", "A"), sold, held, available)]

\* the call: the ledger read of the TigerBeetle implementations, or
\* now_ts = time.time() of the relational one, which then waits at the gate
compute_inventory ==
    /\ inv.pc = "idle"
    /\ inv' = CASE inv.impl = "pg" ->
                     [inv EXCEPT !.pc = "gate", !.now_ts = now]
                [] inv.impl = "tb" ->
                     [inv EXCEPT !.snap = [by_class |-> tb_compute_inventory(inv.accounts),
                                           timestamp |-> now]]
                [] OTHER ->
                     [inv EXCEPT !.snap = [by_class |-> tbdb_compute_inventory(inv.accounts),
                                           timestamp |-> now]]
    /\ UNCHANGED pgVars
    /\ UNCHANGED storeVars /\ UNCHANGED webVars /\ UNCHANGED batchVars /\ UNCHANGED gateVars

\* relational: the gate is free; the transaction reads both classes, ends,
\* and the permit goes back
InventoryRead ==
    /\ inv.pc = "gate"
    /\ db_gate > 0
    /\ inv' = [inv EXCEPT !.pc = "idle", !.now_ts = 0,
                          !.snap = [by_class |-> pg_compute_inventory(inv.now_ts),
                                    timestamp |-> inv.now_ts]]
    /\ UNCHANGED pgVars
    /\ UNCHANGED storeVars /\ UNCHANGED webVars /\ UNCHANGED batchVars /\ UNCHANGED gateVars

\* committed rows of the holds table as the accounting functions leave them
\* at time 0: posted rows without expiry, pending and voided rows with the
\* expiry of a hold made at time 0
InvRows ==
    {NewRow(0, res_name(c), 1, H_POSTED, NULL) : c \in TicketClasses}
      \cup {NewRow(0, res_name(c[1]), 1, c[2], ExpiresAt(0)) :
               c \in TicketClasses \X {H_PENDING, H_VOIDED}}

InvTables ==
    {h \in UNION {[1..n -> InvRows] : n \in 0..MaxInvRows} :
        \A c \in TicketClasses :
            Cardinality({i \in DOMAIN h : h[i].resource = res_name(c)
                                          /\ h[i].status # H_VOIDED})
              <= capacity(res_name(c))}

\* balances of Class_A_spent and Class_B_spent within the budget
InvAccounts(impl) ==
    {a \in [TicketClasses ->
              [credits_posted : 0..TbdbAmountB, credits_pending : 0..TbdbAmountB]] :
        \A c \in TicketClasses :
            a[c].credits_posted + a[c].credits_pending <= TicketAmount(impl, c)}

InitInv ==
    /\ txn = [t \in Txns |-> IdleTxn]
    /\ now = 0
    /\ gate_limit = 1
    /\ db_gate = gate_limit
    /\ calls = 0
    /\ InitStoreIdle
    /\ InitWebIdle
    /\ InitBatchIdle
    /\ InitGateIdle
    /\ \E impl \in InvImpls :
          /\ IF impl = "pg" THEN holds \in InvTables ELSE holds = <<>>
          /\ \E a \in (IF impl = "pg" THEN {<<>>} ELSE InvAccounts(impl)) :
                inv = [impl |-> impl, accounts |-> a, pc |-> "idle",
                       now_ts |-> 0, snap |-> NoSnap]

NextInv ==
    \/ compute_inventory
    \/ InventoryRead
    \/ Tick

SpecInv == InitInv /\ [][NextInv]_vars

(***************************************************************************)
(* C28: in every inventory snapshot and for each class in {A, B}:          *)
(* available = capacity - posted - pending_live, where capacity is that    *)
(* class's own capacity and pending_live counts only the pending holds     *)
(* not expired (at the time the snapshot bears), and sold_out is true iff  *)
(* available <= 0.                                                         *)
(***************************************************************************)
\* what the ledger holds for a class: posted units, and pending units
\* unexpired at time ts
LedgerPosted(c) ==
    IF inv.impl = "pg" THEN SumQty(0, res_name(c), H_POSTED, 0, 1)
    ELSE inv.accounts[c].credits_posted
LedgerPendingLive(c, ts) ==
    IF inv.impl = "pg" THEN SumQty(0, res_name(c), H_PENDING, ts, 1)
    ELSE inv.accounts[c].credits_pending

C28_InventoryArithmetic ==
    Taken_at(inv.snap) # NULL =>
        \A c \in TicketClasses :
            LET e == inv.snap.by_class[c] IN
            /\ e.capacity = TicketAmount(inv.impl, c)
            /\ e.sold = LedgerPosted(c)
            /\ e.active_holds = LedgerPendingLive(c, Taken_at(inv.snap))
            /\ e.available = e.capacity - e.sold - e.active_holds
            /\ e.sold_out <=> (e.available <= 0)

(***************************************************************************)
(* C31: transfers enqueued by submit while an RPC is in flight are never   *)
(* added to the in-flight batch, and submit is never held up for the       *)
(* duration of an RPC; every submitted transfer is sent to the ledger in   *)
(* exactly one RPC: never twice (sent <= num at any time), never dropped   *)
(* (sent = num once the queue is empty and nothing is left to run).        *)
(***************************************************************************)
\* the step is a submit call
SubmitStep ==
    \E c \in Submitters : futs[c].state = "none" /\ futs'[c].state = "waiting"

C31_SentInExactlyOneRpc ==
    /\ [](\A c \in Submitters :
             /\ futs[c].sent <= futs[c].num
             /\ futs[c].answered <= futs[c].sent
             /\ Quiescent => futs[c].sent = futs[c].num
             /\ futs[c].state = "none" =>
                   ENABLED (\E n \in SubSizes :
                               \/ TransferBatcher_submit(c, n)
                               \/ ChainedTransferBatcher_submit(c, n)))
    /\ [][SubmitStep => rpcs \subseteq rpcs']_vars

(***************************************************************************)
(* C32: the force flush (flush_now) terminates, when it returns the        *)
(* pending queue is empty and every queued submission has been resolved,   *)
(* and it never cancels a worker whose RPC is in flight.  Stated on finite *)
(* runs: while flush_now has not returned some step of the batcher can be  *)
(* taken (else it never returns), the step on which it returns leaves an   *)
(* empty queue and no future waiting, and no step takes a task from its    *)
(* RPC to cancelled.                                                       *)
(***************************************************************************)
C32_FlushNowTerminates ==
    /\ [](bflush = "holding" => ENABLED NextBatcherAll)
    /\ [][(bflush = "holding" /\ bflush' = "none") =>
             /\ bq' = <<>>
             /\ \A c \in Submitters : futs'[c].state # "waiting"]_vars
    /\ [][\A t \in Tasks : btask[t] = "rpc" => btask'[t] # "cancelled"]_vars

\* the part of C32 on the worker alone: flush_now never cancels a worker
\* whose RPC is in flight
C32_InFlightNotCancelled ==
    [][\A t \in Tasks : btask[t] = "rpc" => btask'[t] # "cancelled"]_vars

(***************************************************************************)
(* C33: if a batch RPC fails wholesale (raises), every submission with     *)
(* items in that batch is resolved with the error, so none waits for ever, *)
(* and a later submit starts a fresh worker: on the step on which the RPC  *)
(* raises no submit call with a transfer in the batch is left waiting, and *)
(* no task is left registered that would keep a later submit from          *)
(* scheduling one.                                                         *)
(***************************************************************************)
C33_RaisedBatchResolved ==
    [][\A rpc \in rpcs :
          (TransferBatcher_raised(rpc) \/ ChainedTransferBatcher_raised(rpc)) =>
             /\ \A c \in Submitters :
                   InBatch(rpc.batch, c) > 0 => futs'[c].state # "waiting"
             /\ bq' = <<>> => (bref' = NULL \/ btask'[bref'] \in {"done", "cancelled"})]_vars

(***************************************************************************)
(* C34: list_recent_pending returns only pending sessions whose session    *)
(* record exists, and removes from the pending index every examined entry  *)
(* whose session record is missing, leaving the entries that have a        *)
(* record, and their records, untouched: no step of the call removes an    *)
(* index entry or a record of a psid that has both, what the call returns  *)
(* are psids it has examined and found with a record, and when it returns  *)
(* the entries it found without a record are gone from the index unless    *)
(* saved again.                                                            *)
(***************************************************************************)
\* the step belongs to a get_recent_payment_sessions call
RecentStep ==
    \E c \in Callers :
        \/ get_recent_payment_sessions(c)
        \/ _get_payment_sessions(c)
        \/ HouseKeeping(c)

C34_HouseKeepingFrame ==
    /\ [][RecentStep =>
             \A p \in Psids :
                 (pendings[p] # NULL /\ sessions[p] # NULL) =>
                     (pendings'[p] = pendings[p] /\ sessions'[p] = sessions[p])]_vars
    /\ [][\A c \in Callers :
             (sc'[c].op = "recent" /\ sc'[c].pc = "done" /\ sc[c] # sc'[c]) =>
                 /\ sc'[c].items \subseteq Members(sc'[c].psids)
                 /\ \A p \in Members(sc'[c].psids) \ sc'[c].items :
                       pendings'[p] = NULL \/ sessions'[p] # NULL]_vars

(***************************************************************************)
(* C38: if fulfill_and_mark_event(psid, e) returns already_fulfilled =     *)
(* false with event_seen = true (the event key was used already, possibly  *)
(* for another psid), the gate for psid nevertheless stays set, and every  *)
(* later call for that psid returns already_fulfilled = true.              *)
(***************************************************************************)
\* the call of c has returned already_fulfilled = false, event_seen = true
GateWonEventSeen(c) ==
    /\ sc[c].op = "fam" /\ sc[c].pc = "done"
    /\ ~sc[c].already_fulfilled
    /\ sc[c].event_seen = PyBool(TRUE)

Range(c) == c.start .. (c.start + c.num - 1)

C40_CompletionsCoverQueue ==
    (bkind = "ChainedTransferBatcher" /\ LockFree) =>
        /\ \A i, j \in DOMAIN bcomp : i # j => Range(bcomp[i]) \cap Range(bcomp[j]) = {}
        /\ \A i \in DOMAIN bcomp : Range(bcomp[i]) \subseteq 0 .. (Len(bq) - 1)
        /\ UNION {Range(bcomp[i]) : i \in DOMAIN bcomp} = 0 .. (Len(bq) - 1)

(***************************************************************************)
(* C35: in every reachable state an order has a non-empty ticket_code iff  *)
(* its status is PAID: orders with status PENDING, FAILED, CANCELED or     *)
(* PAID_UNFULFILLED have no ticket_code and got_goodie = false, for any    *)
(* interleaving of webhook deliveries.                                     *)
(***************************************************************************)
C35_TicketCodeIffPaid ==
    \A o \in OrderIds :
        orders[o].status # "-" =>
            /\ orders[o].ticket_code <=> orders[o].status = "PAID"
            /\ orders[o].status # "PAID" => ~orders[o].got_goodie

\* no checkout and no webhook is in progress
WebQuiescent == \A r \in Slots : ReqFree(r)

(***************************************************************************)
(* C36: in every quiescent state (no checkout or webhook in progress) and  *)
(* for each class C, the number of posted ticket units of C in the ledger  *)
(* equals the number of PAID orders of class C, including after concurrent *)
(* or conflicting webhook deliveries for one psid.                         *)
(***************************************************************************)
C36_PostedEqualsPaid ==
    WebQuiescent =>
        \A cls \in {"A", "B"} :
            debits_posted(xfers, res_name(cls)) = Cardinality(PaidOrders(cls))

(***************************************************************************)
(* C37: in every quiescent state the posted goodie units equal the number  *)
(* of orders recorded with got_goodie = true: no goodie unit is posted     *)
(* without being granted to an order (fast_book posts a goodie only when   *)
(* it also books the ticket) and no order consumes two goodie units.       *)
(***************************************************************************)
C37_GoodiePostedEqualsGranted ==
    WebQuiescent =>
        debits_posted(xfers, RES_GOODIE) = Cardinality(GoodieOrders)

(***************************************************************************)
(* C39: a validly signed event whose kind is none of succeeded, failed,    *)
(* canceled is rejected with 400 and changes neither the ledger nor any    *)
(* order's status, on the key-value path and on the SQL path of the        *)
(* webhook handler alike.  Stated for the deliveries that name an existing *)
(* order: the step that takes such a delivery answers it, with 400, and    *)
(* leaves the ledger and every order's status as they were.                *)
(***************************************************************************)
C39_UnsupportedEventIs400 ==
    [][\A r \in Slots :
          (/\ req'[r] # req[r]
           /\ req'[r].op = "webhook"
           /\ req'[r].kind \in EventKinds \ Kinds
           /\ Found(orders[req'[r].psid])) =>
              /\ req'[r].pc = "done"
              /\ req'[r].resp.code = 400
              /\ xfers' = xfers
              /\ \A o \in OrderIds : orders'[o].status = orders[o].status]_vars
====
